---- MODULE Spec2Model ----
(***************************************************************************)
(* LFAS Protocol v4: the vulnerability-signal detection, protection-level  *)
(* classification and crisis assessment code of the repository, as state   *)
(* machines.                                                               *)
(*                                                                         *)
(* The specifications share the variables:                                 *)
(*   Spec        one call of a stateless operation on an input drawn in    *)
(*               Init (level classifiers, crisis assessors, detectors)     *)
(*   SpecEngine, SpecManager, SpecSessions, SpecIsolation                  *)
(*               sessions of LFASEngine, ProtectionLevelManager and        *)
(*               LFASMiddleware, alone and side by side                    *)
(*   SpecMiddleware, SpecLongSession, SpecDecay, SpecGenerator             *)
(*               sessions of LFASMiddleware                                *)
(*   SpecDetector, SpecThreads                                             *)
(*               the VulnerabilityDetector of src/lfas and its callers     *)
(*   SpecReload  SpecificationLoader.reload beside a getter                *)
(*   SpecDetectionResult, SpecSafeguard                                    *)
(*               DetectionResult and CrisisDetectionSafeguard of           *)
(*               src/lfas_protocol                                         *)
(*                                                                         *)
(* Text is a sequence of characters over a small alphabet.  Taxonomy       *)
(* phrases are abbreviated to short character sequences; the legend is     *)
(* given with each taxonomy.  Matching, lower-casing and counting are      *)
(* computed as the code computes them.                                     *)
(***************************************************************************)
EXTENDS Integers, Sequences, FiniteSets, TLC

VARIABLES
    op,      \* Spec: the operation this run calls
    arg,     \* Spec: its argument
    ret,     \* Spec: its outcome (a returned value or a raised exception)
    pc,      \* Spec: "call" before the call, "done" after it
    engine,      \* SpecEngine: the fields of one LFASEngine
    engine_ret,  \* SpecEngine: metadata returned by the last process_message
    mgr,         \* SpecManager: the fields of one ProtectionLevelManager
    mgr_ret,     \* SpecManager: value returned by the last update
    detector,    \* SpecDetector, SpecThreads: one VulnerabilityDetector
    caller_h,    \* SpecDetector: the caller's list passed as history
    calls,       \* SpecDetector: the completed detect calls, in order
    threads,     \* SpecThreads: the detect call of each thread
    mw,          \* the fields of each LFASMiddleware instance
    heap,        \* the list objects the middlewares' histories refer to
    mw_ret,      \* what the last middleware call returned, and to whom
    engines,     \* SpecIsolation: the fields of each LFASEngine instance
    loader,      \* SpecReload: the fields of one SpecificationLoader
    reloader,    \* SpecReload: the thread that calls reload
    reader,      \* SpecReload: the thread that calls a getter
    detection,   \* SpecDetectionResult: one DetectionResult of
                 \* lfas_protocol/models.py
    safeguard    \* SpecSafeguard: the CRISIS_RESOURCES list of the class
                 \* CrisisDetectionSafeguard and the results its caller holds

detector_vars == <<detector, caller_h, calls, threads>>

instance_vars == <<mw, heap, mw_ret, engines>>

loader_vars == <<loader, reloader, reader>>

protocol_vars == <<detection, safeguard>>

vars ==
    <<op, arg, ret, pc, engine, engine_ret, mgr, mgr_ret, detector_vars,
      instance_vars, loader_vars, protocol_vars>>

----------------------------------------------------------------------------
(* Bounds of the model *)

\* longest text, in characters
MaxLen == 3
\* largest trigger count handed to the level classifiers
MaxCount == 60
\* largest triggers_count of a hand-built DetectionResult
MaxTriggers == 5
\* turns of one session
MaxTurns == 6
\* largest trigger count handed to ProtectionLevelManager.update
MaxUpdate == 3
\* longest conversation_history handed to detect
MaxHistory == 4
\* detect calls on one VulnerabilityDetector, one after the other
MaxCalls == 3
\* turns of one middleware session
MaxMwTurns == 4
\* turns of the middleware session that overflows its history
MaxLongTurns == 12
\* turns of each of two instances that run side by side
MaxPairTurns == 2
\* reload calls on one SpecificationLoader
MaxReloads == 2
\* threads that call detect on one shared VulnerabilityDetector
NumThreads == 2
\* longest text of one <indicator> element, in characters
MaxIndicatorLen == 3
\* turns of the middleware session in which a crisis message fades
MaxDecayTurns == 5
\* process_request calls of the session whose generator may raise
MaxGeneratorTurns == 3
\* longest indicators list of a DetectionResult
MaxIndicators == 4
\* results of CrisisDetectionSafeguard that the caller holds
MaxResults == 3
\* mutations the caller makes on the lists it was given
MaxMutations == 1

----------------------------------------------------------------------------
(* Text *)

\* c f h i a: one letter per abbreviated phrase; C: an upper-case letter
Alphabet == {"c", "f", "h", "i", "a", " ", "C"}

Texts == UNION {[1..k -> Alphabet] : k \in 0..MaxLen}

Range(s) == {s[i] : i \in DOMAIN s}

\* str.lower() on one character; "ls" is the letter of "c" written with
\* U+017F LATIN SMALL LETTER LONG S as in "la\u017Ft hope": it is a
\* lower-case letter, so lower() leaves it, and its upper case is "C"
LowerChar(ch) ==
    IF ch = "C" THEN "c" ELSE ch

\* str.lower()
Lower(s) == [i \in 1..Len(s) |-> LowerChar(s[i])]

\* str.upper() on one character
UpperChar(ch) ==
    IF ch \in {"c", "ls"} THEN "C" ELSE ch

\* str.upper()
Upper(s) == [i \in 1..Len(s) |-> UpperChar(s[i])]

\* a slip: the phrase is looked for at the start of the text only
StartsWith(sub, s) ==
    Len(sub) <= Len(s) /\ \A j \in 1..Len(sub) : s[j] = sub[j]

\* Python's `sub in s` on strings: literal substring containment
Contains(sub, s) ==
    \E i \in 0..(Len(s) - Len(sub)) :
        \A j \in 1..Len(sub) : s[i + j] = sub[j]

\* Python exceptions and returns as values
Raise(e) == [exc |-> e, val |-> <<>>]
Return(v) == [exc |-> "none", val |-> v]

\* a dataclass constructor called with keyword arguments: every field of
\* the dataclasses modelled here is required, so the call raises TypeError
\* unless the keywords are exactly the fields
Construct(fields, kwargs) ==
    IF DOMAIN kwargs = fields THEN Return(kwargs) ELSE Raise("TypeError")

----------------------------------------------------------------------------
(* Protection levels *)

STANDARD == 1
ENHANCED == 2
CRISIS == 3

Levels == {STANDARD, ENHANCED, CRISIS}

Max(a, b) == IF a >= b THEN a ELSE b

\* a plausible slip: the ENHANCED threshold of the XML-backed detector
core_determine_level_mutant(trigger_count) ==
    IF trigger_count >= 3 THEN CRISIS
    ELSE IF trigger_count >= 2 THEN ENHANCED
    ELSE STANDARD

\* ProtectionLevelManager.determine_level
core_determine_level(trigger_count) ==
    IF trigger_count >= 3 THEN CRISIS
    ELSE IF trigger_count >= 1 THEN ENHANCED
    ELSE STANDARD

\* SpecificationLoader.load_protection_escalation_rules
load_protection_escalation_rules ==
    [standard_max |-> 0, enhanced_min |-> 1, enhanced_max |-> 2,
     crisis_min |-> 3, deescalation_exchanges |-> 3]

\* VulnerabilityDetector.escalation_rules, set in __init__
escalation_rules == load_protection_escalation_rules

\* VulnerabilityDetector._determine_protection_level (src/lfas/detector.py)
lfas_determine_protection_level(trigger_count) ==
    IF trigger_count >= escalation_rules.crisis_min THEN CRISIS
    ELSE IF trigger_count >= escalation_rules.enhanced_min THEN ENHANCED
    ELSE STANDARD

----------------------------------------------------------------------------
(* LFASEngine (integrations/python/shared/lfas_engine.py) *)

\* VulnerabilityIndicators, one abbreviated phrase per category:
\* c "last hope", f "lost my job", h "no insurance", i "nobody cares"
ENGINE_CRISIS_LANGUAGE == << <<"c">> >>
ENGINE_FINANCIAL_DESPERATION == << <<"f">> >>
ENGINE_HEALTH_CRISIS == << <<"h">> >>
ENGINE_ISOLATION_INDICATORS == << <<"i">> >>

\* the loop `for indicator in L: if indicator in input_lower: append(tag:indicator)`
engine_scan(tag, L, input_lower) ==
    LET hit == SelectSeq(L, LAMBDA ind : Contains(ind, input_lower))
    IN  [k \in 1..Len(hit) |-> <<tag, hit[k]>>]

\* LFASEngine._listen
engine_listen(user_input) ==
    LET input_lower == Lower(user_input)
    IN  engine_scan("crisis", ENGINE_CRISIS_LANGUAGE, input_lower)
        \o engine_scan("financial", ENGINE_FINANCIAL_DESPERATION, input_lower)
        \o engine_scan("health", ENGINE_HEALTH_CRISIS, input_lower)
        \o engine_scan("isolation", ENGINE_ISOLATION_INDICATORS, input_lower)

\* what _listen can return for the texts of the model
ListenResults == {engine_listen(t) : t \in Texts}

\* LFASEngine.__init__
EngineInit ==
    [conversation_history |-> <<>>,
     current_protection_level |-> STANDARD,
     trigger_count |-> 0,
     exchanges_without_triggers |-> 0]

\* a plausible slip: the level of the turn replaces the session level
engine_reflect_nomax(e, detected_triggers) ==
    LET trigger_count == Len(detected_triggers)
        streak == IF trigger_count = 0
                  THEN e.exchanges_without_triggers + 1 ELSE 0
        level == IF trigger_count = 0 THEN STANDARD
                 ELSE IF trigger_count <= 2 THEN ENHANCED
                 ELSE CRISIS
    IN  [e EXCEPT !.exchanges_without_triggers = streak,
                  !.current_protection_level = level]

\* a plausible slip: de-escalation after two clean exchanges
engine_reflect_early(e, detected_triggers) ==
    LET trigger_count == Len(detected_triggers)
        streak == IF trigger_count = 0
                  THEN e.exchanges_without_triggers + 1 ELSE 0
        held == IF streak >= 2 THEN STANDARD ELSE e.current_protection_level
        level == IF trigger_count = 0 THEN STANDARD
                 ELSE IF trigger_count <= 2 THEN ENHANCED
                 ELSE CRISIS
    IN  [e EXCEPT !.exchanges_without_triggers = streak,
                  !.current_protection_level = Max(held, level)]

\* a plausible slip: a turn with triggers leaves the clean-turn counter
engine_reflect_keeps_streak(e, detected_triggers) ==
    LET trigger_count == Len(detected_triggers)
        streak == IF trigger_count = 0
                  THEN e.exchanges_without_triggers + 1
                  ELSE e.exchanges_without_triggers
        held == IF streak >= 3 THEN STANDARD ELSE e.current_protection_level
        level == IF trigger_count = 0 THEN STANDARD
                 ELSE IF trigger_count <= 2 THEN ENHANCED
                 ELSE CRISIS
    IN  [e EXCEPT !.exchanges_without_triggers = streak,
                  !.current_protection_level = Max(held, level)]

\* LFASEngine._reflect: the engine after the call; the value returned is
\* its current_protection_level
engine_reflect(e, detected_triggers) ==
    LET trigger_count == Len(detected_triggers)
        \* update trigger tracking
        streak == IF trigger_count = 0
                  THEN e.exchanges_without_triggers + 1 ELSE 0
        \* de-escalate after 3+ exchanges without triggers
        held == IF streak >= 3 THEN STANDARD ELSE e.current_protection_level
        \* escalate based on current triggers
        level == IF trigger_count = 0 THEN STANDARD
                 ELSE IF trigger_count <= 2 THEN ENHANCED
                 ELSE CRISIS
    IN  [e EXCEPT !.exchanges_without_triggers = streak,
                  !.current_protection_level = Max(held, level)]

\* LFASEngine._acknowledge, without trigger_details and safeguards_applied
engine_acknowledge(e, detected_triggers, protection_level) ==
    [triggers_detected |-> Len(detected_triggers),
     protection_level |-> protection_level,
     conversation_length |-> Len(e.conversation_history)]

\* LFASEngine.process_message: LISTEN, REFLECT, ACT, ACKNOWLEDGE, then the
\* turn is appended to conversation_history.  The response text (_act) is
\* not part of the state; a history entry keeps the number of triggers of
\* the turn and its level.
engine_process_message(e, detected_triggers) ==
    LET e1 == engine_reflect(e, detected_triggers)
        protection_level == e1.current_protection_level
    IN  [metadata |-> engine_acknowledge(e1, detected_triggers,
                                         protection_level),
         engine |-> [e1 EXCEPT !.conversation_history =
                        Append(@, [triggers |-> Len(detected_triggers),
                                   level |-> protection_level])]]

EngineProcessMessage ==
    /\ Len(engine.conversation_history) < MaxTurns
    /\ \E detected_triggers \in ListenResults :
        LET out == engine_process_message(engine, detected_triggers)
        IN  /\ engine_ret' = out.metadata
            /\ engine' = out.engine
    /\ UNCHANGED <<op, arg, ret, pc, mgr, mgr_ret, detector_vars, instance_vars, loader_vars, protocol_vars>>

\* LFASEngine.reset
engine_reset(e) ==
    [e EXCEPT !.conversation_history = <<>>,
              !.current_protection_level = STANDARD,
              !.trigger_count = 0,
              !.exchanges_without_triggers = 0]

EngineReset ==
    /\ engine' = engine_reset(engine)
    /\ UNCHANGED <<op, arg, ret, pc, engine_ret, mgr, mgr_ret, detector_vars, instance_vars, loader_vars, protocol_vars>>

----------------------------------------------------------------------------
(* ProtectionLevelManager (integrations/core/protection.py) *)

\* ProtectionLevelManager.__init__
ManagerInit ==
    [current_level |-> STANDARD,
     trigger_history |-> <<>>,
     exchanges_since_clear |-> 0]

\* ProtectionLevelManager.update: the manager after the call; the value
\* returned is its current_level
core_update(m, trigger_count) ==
    LET new_level == core_determine_level(trigger_count)
        clear == IF trigger_count = 0 THEN m.exchanges_since_clear + 1 ELSE 0
        \* check for de-escalation (3+ exchanges with no triggers)
        level == IF trigger_count = 0 /\ clear >= 3 THEN STANDARD ELSE new_level
    IN  [current_level |-> level,
         trigger_history |-> Append(m.trigger_history, trigger_count),
         exchanges_since_clear |-> clear]

ManagerUpdate ==
    /\ Len(mgr.trigger_history) < MaxTurns
    /\ \E trigger_count \in 0..MaxUpdate :
        /\ mgr' = core_update(mgr, trigger_count)
        /\ mgr_ret' = mgr'.current_level
    /\ UNCHANGED <<op, arg, ret, pc, engine, engine_ret, detector_vars, instance_vars, loader_vars, protocol_vars>>

\* ProtectionLevelManager.reset
\* a slip: the clean-exchange counter survives the reset
core_reset_keeps_counter(m) ==
    [m EXCEPT !.current_level = STANDARD, !.trigger_history = <<>>]

core_reset(m) ==
    [m EXCEPT !.current_level = STANDARD,
              !.trigger_history = <<>>,
              !.exchanges_since_clear = 0]

ManagerReset ==
    /\ mgr' = core_reset(mgr)
    /\ UNCHANGED <<op, arg, ret, pc, engine, engine_ret, mgr_ret, detector_vars, instance_vars, loader_vars, protocol_vars>>

----------------------------------------------------------------------------
(* CrisisDetector of src/lfas/crisis.py, with the dataclasses of           *)
(* src/lfas/models.py and the resources of src/lfas/specification_loader.py *)

\* DetectionResult (src/lfas/models.py): hand-built, as the tests build it
LfasDetectionResults ==
    [protection_level : Levels,
     triggers_count : 0..MaxTriggers,
     detected_categories : {<<>>},
     original_input : Texts,
     conversation_history : {<<>>}]

\* the fields of the dataclass CrisisResource
CrisisResourceFields ==
    {"name", "description", "contact", "availability", "crisis_type"}

\* the fields of the dataclass CrisisResult
CrisisResultFields ==
    {"crisis_type", "severity", "detection_result", "resources",
     "recommended_actions", "message"}

\* the enum CrisisType, from the value to the member name
CrisisType ==
    [mental_health |-> "MENTAL_HEALTH", financial |-> "FINANCIAL",
     health |-> "HEALTH", abuse |-> "ABUSE", mixed |-> "MIXED"]

\* SpecificationLoader.load_crisis_resources
load_crisis_resources ==
    [mental_health |-> <<
        [name |-> "988 Suicide & Crisis Lifeline",
         contact |-> "988 (call or text)",
         description |-> "24/7 free and confidential support for people in distress",
         available_247 |-> TRUE],
        [name |-> "Crisis Text Line",
         contact |-> "Text HOME to 741741",
         description |-> "Free 24/7 crisis support via text message",
         available_247 |-> TRUE] >>,
     financial |-> <<
        [name |-> "National Debt Helpline",
         contact |-> "1-800-388-2227",
         description |-> "Free financial counseling and debt assistance",
         available_247 |-> FALSE],
        [name |-> "211 Community Resources",
         contact |-> "Call or text 211",
         description |-> "Connect to local resources for food, housing, and financial assistance",
         available_247 |-> TRUE] >>,
     health |-> <<
        [name |-> "Emergency Services",
         contact |-> "911",
         description |-> "For immediate medical emergencies",
         available_247 |-> TRUE],
        [name |-> "Health Resources & Services",
         contact |-> "1-877-464-4772",
         description |-> "Find local health centers and medical assistance",
         available_247 |-> FALSE] >>,
     abuse |-> <<
        [name |-> "National Domestic Violence Hotline",
         contact |-> "1-800-799-7233",
         description |-> "24/7 confidential support for domestic violence survivors",
         available_247 |-> TRUE],
        [name |-> "National Sexual Assault Hotline",
         contact |-> "1-800-656-4673",
         description |-> "24/7 confidential support for sexual assault survivors",
         available_247 |-> TRUE] >>]

\* CrisisDetector.crisis_resources, set in __init__
crisis_resources == load_crisis_resources

\* CrisisDetector.crisis_keywords in the order of the dict, abbreviated:
\* c "suicide", f "lost my job", "f f" "financial crisis",
\* h "no insurance", a "being abused"
CrisisTypeOrder == <<"mental_health", "financial", "health", "abuse">>

crisis_keywords ==
    [mental_health |-> << <<"c">> >>,
     financial |-> << <<"f">>, <<"f", " ", "f">> >>,
     health |-> << <<"h">> >>,
     abuse |-> << <<"a">> >>]

\* CrisisDetector._detect_crisis_types
lfas_detect_crisis_types(user_input) ==
    LET input_lower == Lower(user_input)
    IN  SelectSeq(CrisisTypeOrder,
                  LAMBDA crisis_type :
                      \E k \in DOMAIN crisis_keywords[crisis_type] :
                          Contains(crisis_keywords[crisis_type][k], input_lower))

\* assess_crisis, lines 96-105: mental health takes priority
lfas_primary_crisis(crisis_types) ==
    IF Len(crisis_types) > 1 /\ "mental_health" \in Range(crisis_types)
        THEN "mental_health"
    ELSE IF Len(crisis_types) > 1 THEN "mixed"
    ELSE IF Len(crisis_types) > 0 THEN crisis_types[1]
    ELSE "mental_health"

\* CrisisDetector._get_crisis_resources: the res_dicts handed to
\* CrisisResource(**res_dict), in order; the first constructor call that
\* raises ends the method
lfas_get_crisis_resources(primary_crisis, all_crisis_types) ==
    LET primary == IF primary_crisis \in DOMAIN crisis_resources
                   THEN crisis_resources[primary_crisis] ELSE <<>>
        \* for mixed crisis, include mental health if not primary
        extra == IF primary_crisis = "mixed"
                    /\ "mental_health" \in Range(all_crisis_types)
                 THEN SelectSeq(SubSeq(crisis_resources["mental_health"], 1, 1),
                                LAMBDA d : \A i \in DOMAIN primary :
                                               primary[i].name # d.name)
                 ELSE <<>>
        found == primary \o extra
        \* if no resources found, default to mental health
        dicts == IF found = <<>> /\ "mental_health" \in DOMAIN crisis_resources
                 THEN crisis_resources["mental_health"] ELSE found
        built == [i \in DOMAIN dicts |->
                     Construct(CrisisResourceFields, dicts[i])]
    IN  IF \E i \in DOMAIN built : built[i].exc # "none"
        THEN Raise("TypeError")
        ELSE Return([i \in DOMAIN built |-> built[i].val])

\* CrisisDetector._get_recommended_actions
lfas_get_recommended_actions(primary_crisis) ==
    LET base_actions == <<
            "Reach out to one of the crisis resources listed above",
            "Consider contacting a trusted friend or family member",
            "If in immediate danger, call emergency services (911)" >>
        crisis_specific_actions ==
            [mental_health |-> <<
                "Talk to someone trained in crisis support - call 988",
                "Do not make any permanent decisions right now",
                "Remove immediate means of self-harm if possible" >>,
             financial |-> <<
                "Contact a financial counselor for professional guidance",
                "Explore community assistance programs in your area",
                "Avoid making rushed financial decisions" >>,
             health |-> <<
                "Seek immediate medical attention if experiencing emergency symptoms",
                "Contact local community health centers for affordable care",
                "Look into health care assistance programs" >>,
             abuse |-> <<
                "Reach out to the domestic violence hotline for confidential support",
                "Create a safety plan if you haven't already",
                "Contact local law enforcement if in immediate danger" >>,
             mixed |-> <<
                "Prioritize your immediate safety and well-being",
                "Reach out to crisis support services",
                "Consider which issue needs most urgent attention" >>]
    IN  crisis_specific_actions[primary_crisis] \o base_actions

\* CrisisDetector._create_crisis_message: the opening sentence of the
\* message chosen for the type
lfas_create_crisis_message(primary_crisis) ==
    [mental_health |-> "I can see you're going through an extremely difficult time.",
     financial |-> "I understand you're facing serious financial difficulties.",
     health |-> "I can see you're dealing with a health crisis.",
     abuse |-> "I'm concerned about your safety based on what you've shared.",
     mixed |-> "I can see you're facing multiple serious challenges right now."
    ][primary_crisis]

\* CrisisDetector._extract_detected_indicators
lfas_extract_detected_indicators(user_input, crisis_types) ==
    LET input_lower == Lower(user_input)
        of(t) == LET hit == SelectSeq(crisis_keywords[t],
                                      LAMBDA k : Contains(k, input_lower))
                 IN  [i \in DOMAIN hit |-> <<t, hit[i]>>]
        Cat[n \in 0..Len(crisis_types)] ==
            IF n = 0 THEN <<>> ELSE Cat[n - 1] \o of(crisis_types[n])
    IN  Cat[Len(crisis_types)]

\* CrisisDetector._create_non_crisis_result
lfas_create_non_crisis_result(detection_result) ==
    Construct(CrisisResultFields,
        [crisis_type |-> CrisisType["mental_health"],
         protection_level |-> detection_result.protection_level,
         detected_indicators |-> <<>>,
         primary_resources |-> <<>>,
         recommended_actions |-> <<>>,
         user_message |-> "No crisis detected. Protection level does not require crisis intervention."])

\* CrisisDetector.assess_crisis
lfas_assess_crisis(detection_result) ==
    IF detection_result.protection_level < 3
    THEN \* not a crisis-level situation
         lfas_create_non_crisis_result(detection_result)
    ELSE LET crisis_types ==
                 lfas_detect_crisis_types(detection_result.original_input)
             primary_crisis == lfas_primary_crisis(crisis_types)
             resources == lfas_get_crisis_resources(primary_crisis, crisis_types)
         IN  IF resources.exc # "none" THEN resources
             ELSE Construct(CrisisResultFields,
                    [crisis_type |-> CrisisType[primary_crisis],
                     protection_level |-> detection_result.protection_level,
                     detected_indicators |->
                        lfas_extract_detected_indicators(
                            detection_result.original_input, crisis_types),
                     primary_resources |-> resources.val,
                     recommended_actions |->
                        lfas_get_recommended_actions(primary_crisis),
                     user_message |-> lfas_create_crisis_message(primary_crisis)])

----------------------------------------------------------------------------
(* VulnerabilityDetector and CrisisDetector of src/src/lfas *)

CategoryOrder ==
    <<"crisis_language", "financial_desperation", "health_crisis",
      "isolation_indicators">>

Categories == Range(CategoryOrder)

\* VulnerabilityDetector.indicators, as get_vulnerability_indicators loads
\* them from the protocol XML: the four categories of the loader, with
\* phrases of the protocol's taxonomy, abbreviated:
\* te "thinking about ending it" (t "thinking about ending", e "ending it"),
\* c c "last hope" (two words), f "lost my job", g "need money fast",
\* h "no insurance",
\* i "no one to talk to", j "nobody cares", k "family doesn't understand"
srclfas_indicators ==
    [crisis_language |-> << <<"t", "e">>, <<"c", " ", "c">> >>,
     financial_desperation |-> << <<"f">>, <<"g">> >>,
     health_crisis |-> << <<"h">> >>,
     isolation_indicators |-> << <<"i">>, <<"j">>, <<"k">> >>]

\* the <<category, phrase>> pairs of the taxonomy
SrcLfasEntries ==
    UNION {{<<category, phrase>> :
               phrase \in Range(srclfas_indicators[category])} :
           category \in Categories}

\* a slip: the thresholds of the class comment of src/lfas/detector.py,
\* where one trigger escalates
srclfas_one_trigger_escalates(trigger_count) ==
    IF trigger_count >= 3 THEN CRISIS
    ELSE IF trigger_count >= 1 THEN ENHANCED
    ELSE STANDARD

\* VulnerabilityDetector._determine_protection_level (src/src/lfas/detector.py)
srclfas_determine_protection_level(trigger_count) ==
    IF trigger_count >= 3 THEN CRISIS
    ELSE IF trigger_count >= 2 THEN ENHANCED
    ELSE STANDARD

\* VulnerabilityDetector.detect from the scan on: hits is the set of
\* <<category, phrase>> for which `phrase.lower() in text_to_analyze` holds
srclfas_detect_from(hits) ==
    LET per(category) ==
            SelectSeq(srclfas_indicators[category],
                      LAMBDA phrase : <<category, phrase>> \in hits)
        triggered_indicators ==
            per(CategoryOrder[1]) \o per(CategoryOrder[2])
            \o per(CategoryOrder[3]) \o per(CategoryOrder[4])
        triggered_categories ==
            {category \in Categories : per(category) # <<>>}
        trigger_count == Len(triggered_indicators)
    IN  [protection_level |-> srclfas_determine_protection_level(trigger_count),
         triggered_indicators |-> triggered_indicators,
         triggered_categories |-> triggered_categories,
         trigger_count |-> trigger_count]

\* " ".join(messages)
RECURSIVE Join(_)
Join(messages) ==
    IF messages = <<>> THEN <<>>
    ELSE IF Len(messages) = 1 THEN messages[1]
    ELSE messages[1] \o <<" ">> \o Join(Tail(messages))

\* a slip: a window of two messages, conversation_history[-2:]
LastTwo(conversation_history) ==
    SubSeq(conversation_history,
           Max(1, Len(conversation_history) - 1), Len(conversation_history))

\* conversation_history[-3:]
LastThree(conversation_history) ==
    SubSeq(conversation_history,
           Max(1, Len(conversation_history) - 2), Len(conversation_history))

\* VulnerabilityDetector.detect of src/src/lfas/detector.py
srclfas_detect(user_input, conversation_history) ==
    LET recent_history == Lower(Join(LastThree(conversation_history)))
        text_to_analyze ==
            IF conversation_history # <<>>
            THEN recent_history \o <<" ">> \o Lower(user_input)
            ELSE Lower(user_input)
    IN  srclfas_detect_from(
            {e \in SrcLfasEntries : Contains(Lower(e[2]), text_to_analyze)})

\* the DetectionResults detect returns: one for each set of phrases a text
\* can contain
SrcLfasDetectionResults ==
    {srclfas_detect_from(hits) : hits \in SUBSET SrcLfasEntries}

\* CrisisDetector.CRISIS_RESOURCES
SRCLFAS_CRISIS_RESOURCES ==
    [mental_health |-> <<
        [name |-> "National Suicide Prevention Lifeline",
         description |-> "24/7 support for people in distress",
         contact |-> "988 or 1-800-273-8255", region |-> "US"],
        [name |-> "Crisis Text Line",
         description |-> "Text-based crisis support",
         contact |-> "Text HOME to 741741", region |-> "US"],
        [name |-> "International Association for Suicide Prevention",
         description |-> "Global crisis helpline directory",
         contact |-> "https://findahelpline.com", region |-> "International"] >>,
     financial |-> <<
        [name |-> "National Foundation for Credit Counseling",
         description |-> "Free financial counseling",
         contact |-> "1-800-388-2227 or https://nfcc.org", region |-> "US"],
        [name |-> "211 Helpline",
         description |-> "Local community resources",
         contact |-> "Dial 211", region |-> "US"] >>,
     health |-> <<
        [name |-> "Emergency Services",
         description |-> "Immediate medical emergency",
         contact |-> "911", region |-> "US"],
        [name |-> "SAMHSA National Helpline",
         description |-> "Substance abuse and mental health",
         contact |-> "1-800-662-4357", region |-> "US"] >>,
     abuse |-> <<
        [name |-> "National Domestic Violence Hotline",
         description |-> "24/7 support for domestic violence",
         contact |-> "1-800-799-7233 or text START to 88788", region |-> "US"],
        [name |-> "Childhelp National Child Abuse Hotline",
         description |-> "Support for child abuse cases",
         contact |-> "1-800-422-4453", region |-> "US"] >>]

\* mental_health_keywords of _determine_crisis_type, abbreviated:
\* e "ending it", d "don't want to live", t "thinking about ending"
srclfas_mental_health_keywords == << <<"e">>, <<"d">>, <<"t">> >>

\* CrisisDetector._determine_crisis_type
srclfas_determine_crisis_type(detection_result) ==
    LET categories == detection_result.triggered_categories
        indicators == detection_result.triggered_indicators
    IN  IF "crisis_language" \in categories
           /\ \E i \in DOMAIN indicators :
                \E k \in DOMAIN srclfas_mental_health_keywords :
                    Contains(srclfas_mental_health_keywords[k],
                             Lower(indicators[i]))
        THEN "mental_health"
        ELSE IF "health_crisis" \in categories THEN "health"
        ELSE IF "financial_desperation" \in categories THEN "financial"
        ELSE IF "crisis_language" \in categories THEN "mental_health"
        ELSE "general"

\* CrisisDetector._get_resources
srclfas_get_resources(crisis_type, detection_result) ==
    LET specific == IF crisis_type \in DOMAIN SRCLFAS_CRISIS_RESOURCES
                    THEN SRCLFAS_CRISIS_RESOURCES[crisis_type] ELSE <<>>
        \* for severe cases, always include mental health resources
        severe == IF crisis_type # "mental_health"
                     /\ detection_result.trigger_count >= 4
                  THEN SubSeq(SRCLFAS_CRISIS_RESOURCES["mental_health"], 1, 1)
                  ELSE <<>>
    IN  specific \o severe

\* CrisisDetector._generate_recommended_actions
srclfas_generate_recommended_actions(crisis_type, detection_result) ==
    << "Pause normal processing immediately",
       "Acknowledge the crisis state explicitly",
       "Provide immediate crisis resources",
       "Encourage seeking professional help",
       "Avoid any business or productivity advice" >>
    \o (IF crisis_type = "mental_health" THEN
            << "Express empathy without minimizing feelings",
               "Do not attempt to provide therapy or counseling",
               "Strongly encourage contacting crisis support immediately" >>
        ELSE IF crisis_type = "financial" THEN
            << "Avoid suggesting risky financial strategies",
               "Recommend professional financial counseling",
               "Connect to local community resources" >>
        ELSE IF crisis_type = "health" THEN
            << "For emergencies, recommend calling 911 immediately",
               "Do not provide medical diagnosis or treatment advice",
               "Encourage seeking professional medical care" >>
        ELSE <<>>)

\* CrisisDetector.assess_crisis: the CrisisResponse
srclfas_assess_crisis(detection_result) ==
    IF detection_result.protection_level < CRISIS
    THEN [crisis_detected |-> FALSE, crisis_type |-> "none",
          resources |-> <<>>, recommended_actions |-> <<>>]
    ELSE LET crisis_type == srclfas_determine_crisis_type(detection_result)
         IN  [crisis_detected |-> TRUE,
              crisis_type |-> crisis_type,
              resources |-> srclfas_get_resources(crisis_type, detection_result),
              recommended_actions |->
                  srclfas_generate_recommended_actions(crisis_type,
                                                       detection_result)]

----------------------------------------------------------------------------
(* VulnerabilityDetector of integrations/core/detector.py *)

\* VulnerabilityDetector.all_indicators, abbreviated:
\* c "last hope", f "can't afford", h "no insurance",
\* fh "can't afford medication", i "nobody cares"
core_all_indicators ==
    [crisis_language |-> << <<"c">> >>,
     financial_desperation |-> << <<"f">> >>,
     health_crisis |-> << <<"h">>, <<"f", "h">> >>,
     isolation_indicators |-> << <<"i">> >>]

\* lines 86-91: one message of the history scanned into `detected`
core_scan_message(all_indicators, detected, message) ==
    LET message_lower == Lower(message)
    IN  [category \in Categories |->
            detected[category] \o
            SelectSeq(all_indicators[category],
                      LAMBDA indicator :
                          /\ Contains(Lower(indicator), message_lower)
                          /\ indicator \notin Range(detected[category]))]

\* VulnerabilityDetector.detect on a detector whose all_indicators is the
\* given taxonomy
core_detect_with(all_indicators, text, conversation_history) ==
    LET text_lower == Lower(text)
        detected0 ==
            [category \in Categories |->
                SelectSeq(all_indicators[category],
                          LAMBDA indicator :
                              Contains(Lower(indicator), text_lower))]
        recent == LastThree(conversation_history)
        Scan[k \in 0..Len(recent)] ==
            IF k = 0 THEN detected0
            ELSE core_scan_message(all_indicators, Scan[k - 1], recent[k])
    IN  Scan[Len(recent)]

\* VulnerabilityDetector.detect
core_detect(text, conversation_history) ==
    core_detect_with(core_all_indicators, text, conversation_history)

\* a plausible slip: the lengths of the lists are added up
core_count_triggers_sum(detected) ==
    Len(detected[CategoryOrder[1]]) + Len(detected[CategoryOrder[2]])
    + Len(detected[CategoryOrder[3]]) + Len(detected[CategoryOrder[4]])

\* VulnerabilityDetector.count_triggers
core_count_triggers(detected) ==
    LET all_triggers == UNION {Range(detected[category]) :
                                  category \in DOMAIN detected}
    IN  Cardinality(all_triggers)

\* `detected` mappings handed to count_triggers directly: each category
\* lists phrases without repetition; a phrase may be listed by two categories
CountPhrases == {<<"c">>, <<"f">>}

PhraseLists ==
    {<<>>} \cup {<<p>> : p \in CountPhrases}
    \cup {s \in [1..2 -> CountPhrases] : s[1] # s[2]}

DetectedMappings == [Categories -> PhraseLists]

\* messages of a conversation: nothing, "last hope", its word "last" or
\* "hope" alone (c; also a phrase of integrations/core), the same in upper
\* case, and "no insurance"
Messages == {<<>>, <<"c">>, <<"c", " ", "c">>, <<"C">>, <<"h">>}

Histories == UNION {[1..k -> Messages] : k \in 0..MaxHistory}

\* detect(text, conversation_history=history)
DetectCalls == [text : Messages, history : Histories]

----------------------------------------------------------------------------
(* VulnerabilityDetector of src/lfas/detector.py: one detector, its caller *)
(* and the threads that share it                                           *)

\* VulnerabilityDetector.indicators: load_vulnerability_indicators reads the
\* categories and phrases of the same protocol XML
lfas_indicators == srclfas_indicators

\* VulnerabilityDetector.__init__; aliased: self.conversation_history is
\* the list object the caller passed as conversation_history
DetectorInit == [conversation_history |-> <<>>, aliased |-> FALSE]

\* a slip: the history is rebuilt from the value read before the append
list_append_stale(live, loaded, user_input) == Append(loaded, user_input)

\* self.conversation_history.append(user_input): the attribute is loaded
\* (a reference to the list), then list.append extends the list in place,
\* whatever was appended to it since the load
list_append(live, loaded, user_input) == Append(live, user_input)

\* str.strip(), on text whose only whitespace character is the blank
RECURSIVE Strip(_)
Strip(s) ==
    IF s # <<>> /\ Head(s) = " " THEN Strip(Tail(s))
    ELSE IF s # <<>> /\ s[Len(s)] = " " THEN Strip(SubSeq(s, 1, Len(s) - 1))
    ELSE s

\* str.split(','): the pieces between the commas, empty pieces included
RECURSIVE Split(_)
Split(s) ==
    IF \A i \in 1..Len(s) : s[i] # "," THEN <<s>>
    ELSE LET i == CHOOSE k \in 1..Len(s) :
                      s[k] = "," /\ \A j \in 1..(k - 1) : s[j] # ","
         IN  <<SubSeq(s, 1, i - 1)>> \o Split(SubSeq(s, i + 1, Len(s)))

\* the text of an <indicator> element: phrases "c", commas and blanks
IndicatorAlphabet == {"c", ",", " "}

IndicatorTexts ==
    UNION {[1..k -> IndicatorAlphabet] : k \in 0..MaxIndicatorLen}

\* specification files as load_vulnerability_indicators sees them:
\* whether the detection_indicators section is found, and its category
\* elements, each with the texts of its <indicator> children (<<>> for an
\* element without text)
XmlDocuments ==
    {[detection_indicators |-> TRUE,
      categories |->
          <<[tag |-> "crisis_language", indicators |-> <<text>>],
            [tag |-> "financial_desperation", indicators |-> << <<"f">> >>]>>] :
        text \in IndicatorTexts}
    \cup {[detection_indicators |-> FALSE, categories |-> <<>>]}

\* lines 57-61: category_indicators of one category element
RECURSIVE category_indicators(_)
category_indicators(indicator_texts) ==
    IF indicator_texts = <<>> THEN <<>>
    ELSE LET text == Head(indicator_texts)
             pieces == Split(text)
             phrases == [i \in 1..Len(pieces) |-> Strip(pieces[i])]
         IN  (IF text # <<>> THEN phrases ELSE <<>>)
             \o category_indicators(Tail(indicator_texts))

\* SpecificationLoader.load_vulnerability_indicators: the dictionary from
\* category tag to phrases, without the categories that have no phrase
load_vulnerability_indicators(document) ==
    LET elements == document.categories
        kept == {i \in 1..Len(elements) :
                    /\ document.detection_indicators
                    /\ category_indicators(elements[i].indicators) # <<>>}
    IN  [tag \in {elements[i].tag : i \in kept} |->
            category_indicators(
                elements[CHOOSE i \in kept : elements[i].tag = tag].indicators)]

\* lines 52-63: the scan of the current input against self.indicators
lfas_scan_with(indicators, user_input) ==
    LET input_lower == Lower(user_input)
        hit(indicator) == Contains(Lower(indicator), input_lower)
        per(category) ==
            IF category \in DOMAIN indicators
            THEN SelectSeq(indicators[category], hit)
            ELSE <<>>
    IN  [total_triggers |->
             Len(per(CategoryOrder[1])) + Len(per(CategoryOrder[2]))
             + Len(per(CategoryOrder[3])) + Len(per(CategoryOrder[4])),
         \* list(detected_categories): one order per process
         detected_categories |->
             SelectSeq(CategoryOrder, LAMBDA category : per(category) # <<>>)]

\* the scan of a detector constructed on the protocol XML
lfas_scan(user_input) == lfas_scan_with(lfas_indicators, user_input)

\* lines 65-74: the DetectionResult, with a copy of the history
lfas_detection_result(user_input, scan, conversation_history) ==
    [protection_level |-> lfas_determine_protection_level(scan.total_triggers),
     triggers_count |-> scan.total_triggers,
     detected_categories |-> scan.detected_categories,
     original_input |-> user_input,
     conversation_history |-> conversation_history]

\* detect on a fresh detector whose specification file is the document
lfas_detect_on(document, user_input) ==
    lfas_detection_result(
        user_input,
        lfas_scan_with(load_vulnerability_indicators(document), user_input),
        <<user_input>>)

\* VulnerabilityDetector.detect, called alone: history_arg is "None" or
\* "h", the caller's list; gives the detector, the caller's list and the
\* result after the call
lfas_detect(d, h, user_input, history_arg) ==
    LET \* lines 47-48
        target == IF history_arg = "h" THEN h ELSE d.conversation_history
        aliased == (history_arg = "h") \/ d.aliased
        \* line 49
        appended == list_append(target, target, user_input)
    IN  [detector |-> [conversation_history |-> appended, aliased |-> aliased],
         h |-> IF aliased THEN appended ELSE h,
         result |-> lfas_detection_result(user_input, lfas_scan(user_input),
                                          appended)]

\* one detect call of the caller
DetectorDetect ==
    /\ Len(calls) < MaxCalls
    /\ \E user_input \in Messages, history_arg \in {"None", "h"} :
          LET out == lfas_detect(detector, caller_h, user_input, history_arg)
          IN  /\ detector' = out.detector
              /\ caller_h' = out.h
              /\ calls' = Append(calls,
                     [user_input |-> user_input, history_arg |-> history_arg,
                      h_before |-> caller_h, h_after |-> out.h,
                      result |-> out.result])
    /\ UNCHANGED <<op, arg, ret, pc, engine, engine_ret, mgr, mgr_ret, threads,
                   instance_vars,
                   loader_vars, protocol_vars>>

\* VulnerabilityDetector.reset_history: a new empty list
DetectorResetHistory ==
    /\ Len(calls) < MaxCalls
    /\ detector.conversation_history # <<>>
    /\ detector' = [conversation_history |-> <<>>, aliased |-> FALSE]
    /\ calls' = Append(calls,
           [user_input |-> <<>>, history_arg |-> "reset_history",
            h_before |-> caller_h, h_after |-> caller_h, result |-> <<>>])
    /\ UNCHANGED <<op, arg, ret, pc, engine, engine_ret, mgr, mgr_ret,
                   caller_h, threads, instance_vars, loader_vars, protocol_vars>>

Threads == 1..NumThreads

NoCall ==
    [pc |-> "none", user_input |-> <<>>, loaded |-> <<>>, scan |-> <<>>,
     result |-> <<>>]

\* a thread about to run detect(user_input)
StartedCalls ==
    {[NoCall EXCEPT !.pc = "start", !.user_input = m] : m \in Messages}

\* line 49, first half: self.conversation_history is evaluated
ThreadLoad(t) ==
    /\ threads[t].pc = "start"
    /\ threads' = [threads EXCEPT ![t].pc = "loaded",
                                  ![t].loaded = detector.conversation_history]
    /\ UNCHANGED <<op, arg, ret, pc, engine, engine_ret, mgr, mgr_ret,
                   detector, caller_h, calls, instance_vars, loader_vars, protocol_vars>>

\* line 49, second half: list.append runs
ThreadAppend(t) ==
    /\ threads[t].pc = "loaded"
    /\ detector' = [detector EXCEPT !.conversation_history =
                        list_append(@, threads[t].loaded,
                                    threads[t].user_input)]
    /\ threads' = [threads EXCEPT ![t].pc = "appended"]
    /\ UNCHANGED <<op, arg, ret, pc, engine, engine_ret, mgr, mgr_ret,
                   caller_h, calls, instance_vars, loader_vars, protocol_vars>>

\* lines 52-66: the scan, on locals only
ThreadScan(t) ==
    /\ threads[t].pc = "appended"
    /\ threads' = [threads EXCEPT ![t].pc = "scanned",
                                  ![t].scan = lfas_scan(threads[t].user_input)]
    /\ UNCHANGED <<op, arg, ret, pc, engine, engine_ret, mgr, mgr_ret,
                   detector, caller_h, calls, instance_vars, loader_vars, protocol_vars>>

\* lines 68-74: the result is built, with self.conversation_history.copy()
ThreadReturn(t) ==
    /\ threads[t].pc = "scanned"
    /\ threads' = [threads EXCEPT
                      ![t].pc = "done",
                      ![t].result = lfas_detection_result(
                                        threads[t].user_input, threads[t].scan,
                                        detector.conversation_history)]
    /\ UNCHANGED <<op, arg, ret, pc, engine, engine_ret, mgr, mgr_ret,
                   detector, caller_h, calls, instance_vars, loader_vars, protocol_vars>>

DetectorVarsInit ==
    /\ detector = DetectorInit
    /\ caller_h = <<>>
    /\ calls = <<>>
    /\ threads = [t \in Threads |-> NoCall]

----------------------------------------------------------------------------
(* LFASMiddleware of integrations/core/middleware.py with its              *)
(* SafeguardEngine, and LFASEngine instances side by side                  *)

Instances == {"A", "B"}

\* len(self.conversation_history) > 10
HISTORY_LIMIT == 10

\* a slip: the history list is one class-level list, shared by instances
shared_list(self) == "A"

\* `[]` and `[-10:]` in a method of instance self: a new list object, that
\* no other instance refers to
new_list(self) == self

\* VulnerabilityDetector.get_categories_triggered
core_get_categories_triggered(detected) ==
    {category \in DOMAIN detected : detected[category] # <<>>}

\* ProtectionLevelManager.get_active_safeguards, as the number of names
core_get_active_safeguards(m) ==
    3 + (IF m.current_level >= ENHANCED THEN 4 ELSE 0)
      + (IF m.current_level >= CRISIS THEN 5 ELSE 0)

\* SafeguardEngine.should_pause_and_verify
should_pause_and_verify(protection_level) == protection_level >= ENHANCED

\* SafeguardEngine._filter_optimistic_language: it returns the response
filter_optimistic_language(response) == response

\* SafeguardEngine._apply_enhanced_safeguards; a response is the sequence
\* of its parts
apply_enhanced_safeguards(response, detected_categories) ==
    LET preamble ==
            (IF "financial_desperation" \in detected_categories
             THEN <<"VR-23 financial realism">> ELSE <<>>)
            \o (IF "health_crisis" \in detected_categories
                THEN <<"VR-22 medical disclaimer">> ELSE <<>>)
    IN  IF preamble # <<>> THEN preamble \o response ELSE response

\* SafeguardEngine._apply_crisis_safeguards; CRISIS_RESOURCES is the part
\* that names 988
apply_crisis_safeguards(response, detected_categories) ==
    IF "crisis_language" \in detected_categories
        THEN <<"VR-24 crisis response", "CRISIS_RESOURCES">>
    ELSE IF "isolation_indicators" \in detected_categories
        THEN response \o <<"VR-25 isolation note">>
    ELSE response

\* SafeguardEngine.apply_safeguards
apply_safeguards(response, protection_level, detected_categories) ==
    LET filtered == filter_optimistic_language(response)
        enhanced == IF protection_level >= ENHANCED
                    THEN apply_enhanced_safeguards(filtered, detected_categories)
                    ELSE filtered
    IN  IF protection_level >= CRISIS
        THEN apply_crisis_safeguards(enhanced, detected_categories)
        ELSE enhanced

\* a slip: the crisis branch is never taken
never_skips_generation(protection_level, detected_categories) == FALSE

\* process_request, lines 60-61: the turn skips the AI generation
skips_generation(protection_level, detected_categories) ==
    protection_level = CRISIS /\ "crisis_language" \in detected_categories

\* a slip: the history is cut one entry late
history_overflows_late(conversation_history) ==
    Len(conversation_history) > HISTORY_LIMIT + 1

\* lines 74-75: len(self.conversation_history) > 10
history_overflows(conversation_history) ==
    Len(conversation_history) > HISTORY_LIMIT

\* conversation_history[-10:]
LastTen(conversation_history) ==
    SubSeq(conversation_history,
           Max(1, Len(conversation_history) - HISTORY_LIMIT + 1),
           Len(conversation_history))

\* LFASMiddleware.__init__: conversation_history is a reference to a list
\* on the heap; inputs_since_reset records the user inputs handled since
\* construction or reset (not a field of the code)
MiddlewareInit(self) ==
    [conversation_history |-> new_list(self),
     protection_manager |-> ManagerInit,
     inputs_since_reset |-> <<>>]

\* a slip: ACT before REFLECT, the generator runs on the manager of the
\* previous turn
manager_before_reflect(before, after) == before

\* process_request, line 67: self.protection_manager when
\* ai_response_generator runs; update (line 52) is done
manager_at_generation(before, after) == after

\* a slip: ACKNOWLEDGE before ACT, the message is appended first
history_after_acknowledge(history, appended) == appended

\* process_request, line 67: the list self.conversation_history when
\* ai_response_generator runs; append (line 74) is not done
history_at_generation(history, appended) == history

\* LFASMiddleware.process_request (mode "process_request", and
\* "generator_raises" when ai_response_generator raises if it is invoked)
\* and process_with_response: the instance, the heap and the outcome of
\* the call.  generator_saw lists, for each invocation of the generator,
\* the level and the history the instance holds at that time;
\* detect_history is the history handed to detect.
mw_process(self, m, h, user_input, mode) ==
    LET history == h[m.conversation_history]
        \* LISTEN
        detected == core_detect(user_input, history)
        trigger_count == core_count_triggers(detected)
        detected_categories == core_get_categories_triggered(detected)
        \* REFLECT
        protection_manager == core_update(m.protection_manager, trigger_count)
        protection_level == protection_manager.current_level
        \* WAIT
        requires_verification == should_pause_and_verify(protection_level)
        \* ACT
        skip == /\ mode # "process_with_response"
                /\ skips_generation(protection_level, detected_categories)
        invoked == mode # "process_with_response" /\ ~skip
        raises == mode = "generator_raises" /\ invoked
        safe_response ==
            IF skip THEN apply_crisis_safeguards(<<>>, detected_categories)
            ELSE apply_safeguards(<<"raw response">>, protection_level,
                                  detected_categories)
        \* ACKNOWLEDGE
        appended == Append(history, user_input)
        h1 == [h EXCEPT ![m.conversation_history] = appended]
        ref == IF history_overflows(appended) THEN new_list(self)
               ELSE m.conversation_history
        h2 == IF history_overflows(appended)
              THEN [h1 EXCEPT ![ref] = LastTen(appended)] ELSE h1
        generator_saw ==
            IF invoked
            THEN <<[current_level |->
                        manager_at_generation(m.protection_manager,
                                              protection_manager).current_level,
                    conversation_history |->
                        history_at_generation(history, appended)]>>
            ELSE <<>>
    IN  IF raises
        THEN \* the exception leaves process_request at line 67
             [mw |-> [m EXCEPT !.protection_manager =
                          manager_at_generation(m.protection_manager,
                                                protection_manager)],
              heap |-> [h EXCEPT ![m.conversation_history] =
                           history_at_generation(history, appended)],
              ret |-> [self |-> self, call |-> "generator_raises",
                       exc |-> "GeneratorError",
                       user_input |-> user_input,
                       detect_history |-> history,
                       generator_calls |-> Len(generator_saw),
                       generator_saw |-> generator_saw]]
        ELSE
        [mw |-> [conversation_history |-> ref,
                 protection_manager |-> protection_manager,
                 inputs_since_reset |-> Append(m.inputs_since_reset, user_input)],
         heap |-> h2,
         ret |-> [self |-> self,
                  call |-> IF mode = "process_with_response" THEN mode
                           ELSE "process_request",
                  exc |-> "none",
                  user_input |-> user_input,
                  detect_history |-> history,
                  response |-> safe_response,
                  generator_calls |-> Len(generator_saw),
                  generator_saw |-> generator_saw,
                  metadata |->
                      [protection_level |-> protection_level,
                       trigger_count |-> trigger_count,
                       detected_categories |-> detected_categories,
                       active_safeguards |->
                           core_get_active_safeguards(protection_manager),
                       requires_verification |-> requires_verification]]]

\* LFASMiddleware.reset
mw_reset(self, m, h) ==
    [mw |-> [conversation_history |-> new_list(self),
             protection_manager |-> core_reset(m.protection_manager),
             inputs_since_reset |-> <<>>],
     heap |-> [h EXCEPT ![new_list(self)] = <<>>]]

\* user inputs of a middleware session: nothing, "last hope", "can't
\* afford medication" (also "can't afford" and "no insurance"), "nobody
\* cares", and "last hope" with "can't afford" and "nobody cares"
MwMessages ==
    {<<>>, <<"c">>, <<"f", "h">>, <<"i">>, <<"c", "f", "i">>}

\* user inputs of the long session
LongMessages == {<<>>, <<"c">>}

\* user inputs of the session whose generator may raise: nothing, "last
\* hope", "can't afford medication" and a message with three phrases, one
\* of them of crisis_language
GeneratorMessages == {<<>>, <<"c">>, <<"f", "h">>, <<"c", "f", "i">>}

\* user inputs of the session in which a crisis message fades: nothing,
\* "nobody cares", and "last hope" with "can't afford" and "nobody cares"
DecayMessages == {<<>>, <<"i">>, <<"c", "f", "i">>}

MwCall(self, inputs, max_turns, mode) ==
    /\ Len(mw[self].inputs_since_reset) < max_turns
    /\ \E user_input \in inputs :
          LET out == mw_process(self, mw[self], heap, user_input, mode)
          IN  /\ mw' = [mw EXCEPT ![self] = out.mw]
              /\ heap' = out.heap
              /\ mw_ret' = out.ret
    /\ UNCHANGED <<op, arg, ret, pc, engine, engine_ret, mgr, mgr_ret,
                   detector_vars, engines, loader_vars, protocol_vars>>

MwProcessRequest(self, inputs, max_turns) ==
    MwCall(self, inputs, max_turns, "process_request")

MwProcessWithResponse(self, inputs, max_turns) ==
    MwCall(self, inputs, max_turns, "process_with_response")

\* process_request with an ai_response_generator that raises
MwGeneratorRaises(self, inputs, max_turns) ==
    MwCall(self, inputs, max_turns, "generator_raises")

MwReset(self) ==
    /\ mw[self].protection_manager.trigger_history # <<>>
    /\ LET out == mw_reset(self, mw[self], heap)
       IN  /\ mw' = [mw EXCEPT ![self] = out.mw]
           /\ heap' = out.heap
    /\ mw_ret' = [self |-> self, call |-> "reset"]
    /\ UNCHANGED <<op, arg, ret, pc, engine, engine_ret, mgr, mgr_ret,
                   detector_vars, engines, loader_vars, protocol_vars>>

\* LFASEngine.process_message on one of the instances
PairEngineProcessMessage(self) ==
    /\ Len(engines[self].engine.conversation_history) < MaxPairTurns
    /\ \E detected_triggers \in ListenResults :
          engines' = [engines EXCEPT ![self] =
                         engine_process_message(engines[self].engine,
                                                detected_triggers)]
    /\ UNCHANGED <<op, arg, ret, pc, engine, engine_ret, mgr, mgr_ret,
                   detector_vars, mw, heap, mw_ret, loader_vars, protocol_vars>>

\* LFASEngine.reset on one of the instances
PairEngineReset(self) ==
    /\ engines[self].engine.conversation_history # <<>>
    /\ engines' = [engines EXCEPT ![self].engine = engine_reset(@)]
    /\ UNCHANGED <<op, arg, ret, pc, engine, engine_ret, mgr, mgr_ret,
                   detector_vars, mw, heap, mw_ret, loader_vars, protocol_vars>>

InstanceVarsInit ==
    /\ mw = [self \in Instances |-> MiddlewareInit(self)]
    /\ heap = [self \in Instances |-> <<>>]
    /\ mw_ret = <<>>
    /\ engines = [self \in Instances |->
                     [metadata |-> <<>>, engine |-> EngineInit]]

----------------------------------------------------------------------------
(* SpecificationLoader of src/lfas/spec_loader.py: reload and a getter in  *)
(* two threads                                                             *)

\* two well-formed specification files, as the trees ET.parse builds from
\* them; they differ in every entry (c "last hope", t "thinking about
\* ending it", f "lost my job", g "need money fast")
SpecFileOne ==
    [detection_indicators |->
         [crisis_language |-> << <<"c">> >>,
          financial_desperation |-> << <<"f">> >>],
     verification_requirements |->
         [VR20 |-> "Unfounded Optimism Prevention",
          VR24 |-> "Crisis Detection & Response"]]

SpecFileTwo ==
    [detection_indicators |->
         [crisis_language |-> << <<"c">>, <<"t", "e">> >>,
          financial_desperation |-> << <<"g">> >>],
     verification_requirements |->
         [VR20 |-> "Unfounded Optimism Prevention v2",
          VR24 |-> "Crisis Detection & Response v2"]]

WellFormedFiles == {SpecFileOne, SpecFileTwo}

\* a file that is not well-formed XML, and no file at all
MalformedFile == [error |-> "ParseError"]
MissingFile == [error |-> "FileNotFoundError"]

\* what the file at spec_path can hold when reload runs
FileContents == WellFormedFiles \cup {MalformedFile, MissingFile}

\* ET.parse(self.spec_path), with the except clauses of _load_spec
parse_spec(content) ==
    IF content \in WellFormedFiles THEN Return(content)
    ELSE IF content = MalformedFile THEN Raise("ValueError")
    ELSE Raise("FileNotFoundError")

\* the getters and the children they iterate over, in document order
Getters == {"detection_indicators", "verification_requirements"}

SectionKeys(getter) ==
    IF getter = "detection_indicators"
    THEN <<"crisis_language", "financial_desperation">>
    ELSE <<"VR20", "VR24">>

\* SpecificationLoader.__init__ on the first file
LoaderInit == [_tree |-> SpecFileOne, _root |-> SpecFileOne]

ReloaderInit ==
    [pc |-> "idle", parsed |-> <<>>, before |-> LoaderInit, reloads |-> 0,
     published |-> {SpecFileOne}]

ReaderInit ==
    [pc |-> "idle", getter |-> "none", section |-> <<>>, next |-> 1,
     result |-> <<>>]

\* a slip: the getter looks self._root up again for every child
section_read_live(section, live_root, getter) == live_root[getter]

\* the getter evaluates self._root once, at its first statement, and works
\* on the element it found from then on
section_read(section, live_root, getter) == section

\* reload -> _load_spec, line 43, right-hand side: ET.parse
ReloadParse ==
    /\ reloader.pc \in {"idle", "done", "failed"}
    /\ reloader.reloads < MaxReloads
    /\ \E content \in FileContents :
          LET parsed == parse_spec(content)
          IN  reloader' = [reloader EXCEPT
                  !.pc = IF parsed.exc = "none" THEN "parsed" ELSE "failed",
                  !.parsed = parsed,
                  !.before = loader,
                  !.reloads = @ + 1]
    /\ UNCHANGED <<op, arg, ret, pc, engine, engine_ret, mgr, mgr_ret,
                   detector_vars, instance_vars, loader, reader, protocol_vars>>

\* line 43: self._tree = ...
ReloadAssignTree ==
    /\ reloader.pc = "parsed"
    /\ loader' = [loader EXCEPT !._tree = reloader.parsed.val]
    /\ reloader' = [reloader EXCEPT !.pc = "tree"]
    /\ UNCHANGED <<op, arg, ret, pc, engine, engine_ret, mgr, mgr_ret,
                   detector_vars, instance_vars, reader, protocol_vars>>

\* line 44: self._root = self._tree.getroot()
ReloadAssignRoot ==
    /\ reloader.pc = "tree"
    /\ loader' = [loader EXCEPT !._root = loader._tree]
    /\ reloader' = [reloader EXCEPT !.pc = "done",
                                    !.published = @ \cup {loader._tree}]
    /\ UNCHANGED <<op, arg, ret, pc, engine, engine_ret, mgr, mgr_ret,
                   detector_vars, instance_vars, reader, protocol_vars>>

\* get_detection_indicators, lines 57-67 (get_verification_requirements,
\* lines 201-205): self._root.find(...)
ReadRoot ==
    /\ reader.pc = "idle"
    /\ \E getter \in Getters :
          reader' = [reader EXCEPT !.pc = "iterate", !.getter = getter,
                                   !.section = loader._root[getter]]
    /\ UNCHANGED <<op, arg, ret, pc, engine, engine_ret, mgr, mgr_ret,
                   detector_vars, instance_vars, loader, reloader, protocol_vars>>

\* one round of the loop over the children of the section
ReadChild ==
    /\ reader.pc = "iterate"
    /\ LET keys == SectionKeys(reader.getter)
           key == keys[reader.next]
           section == section_read(reader.section, loader._root,
                                   reader.getter)
       IN  reader' = [reader EXCEPT
               !.result = Append(@, <<key, section[key]>>),
               !.next = @ + 1,
               !.pc = IF reader.next = Len(keys) THEN "done" ELSE "iterate"]
    /\ UNCHANGED <<op, arg, ret, pc, engine, engine_ret, mgr, mgr_ret,
                   detector_vars, instance_vars, loader, reloader, protocol_vars>>

LoaderVarsInit ==
    /\ loader = LoaderInit
    /\ reloader = ReloaderInit
    /\ reader = ReaderInit

----------------------------------------------------------------------------
(* VulnerabilityDetector of src/lfas_protocol/detector.py *)

ProtocolCategoryOrder ==
    <<"crisis_language", "financial_desperation", "health_crisis", "isolation">>

\* VulnerabilityDetector.indicators_map, abbreviated:
\* c "last hope", a "completely alone", f "lost my job", h "no insurance",
\* i "no one to talk to", a followed by a blank "completely alone in this"
\* (a phrase that contains the phrase a of another category)
protocol_indicators_map ==
    [crisis_language |-> << <<"c">>, <<"a">> >>,
     financial_desperation |-> << <<"f">> >>,
     health_crisis |-> << <<"h">> >>,
     isolation |-> << <<"i">>, <<"a", " ">> >>]

\* VulnerabilityDetector.detect of src/lfas_protocol/detector.py
protocol_detect(user_input) ==
    LET user_input_lower == Lower(user_input)
        per(category) ==
            SelectSeq(protocol_indicators_map[category],
                      LAMBDA indicator : Contains(indicator, user_input_lower))
        triggered_indicators ==
            per(ProtocolCategoryOrder[1]) \o per(ProtocolCategoryOrder[2])
            \o per(ProtocolCategoryOrder[3]) \o per(ProtocolCategoryOrder[4])
        indicator_count == Len(triggered_indicators)
    IN  [protection_level |->
             IF indicator_count = 0 THEN STANDARD
             ELSE IF indicator_count <= 2 THEN ENHANCED
             ELSE CRISIS,
         triggered_indicators |-> triggered_indicators,
         indicator_count |-> indicator_count,
         categories |-> {category \in Range(ProtocolCategoryOrder) :
                            per(category) # <<>>}]

\* texts in lower, upper and mixed case, with and without the long s
CaseAlphabet == {"c", "C", "ls", " "}

CaseTexts == UNION {[1..k -> CaseAlphabet] : k \in 0..MaxLen}

\* a text b and a text a that is a substring of it
SubstringPairs ==
    {[a |-> SubSeq(b, i, j), b |-> b] :
        <<b, i, j>> \in {<<t, i, j>> \in Texts \X (1..MaxLen) \X (0..MaxLen) :
                             i <= j + 1 /\ j <= Len(t)}}

\* the inputs of detect on a freshly loaded taxonomy: empty, blank, and
\* texts with a phrase
LoadAndDetectInputs == {<<>>, <<" ">>, <<" ", " ">>, <<"c">>, <<"f", " ">>}

LoadAndDetectCalls == [document : XmlDocuments, user_input : LoadAndDetectInputs]

----------------------------------------------------------------------------
(* DetectionResult of src/lfas_protocol/models.py *)

\* VulnerabilityIndicator values: "last hope" of crisis_language and
\* "lost my job" of financial_desperation
VulnerabilityIndicators ==
    {[category |-> "crisis_language", pattern |-> <<"c">>],
     [category |-> "financial_desperation", pattern |-> <<"f">>]}

IndicatorLists ==
    UNION {[1..k -> VulnerabilityIndicators] : k \in 0..MaxIndicators}

\* no DetectionResult is constructed yet
NoDetectionResult == [constructed |-> FALSE]

\* a slip: the values given to the constructor are kept
result_keeps_given(r) == r

\* DetectionResult.__post_init__
result_post_init(r) ==
    LET trigger_count == Len(r.indicators)
    IN  [r EXCEPT !.trigger_count = trigger_count,
                  !.protection_level =
                      IF trigger_count >= 3 THEN CRISIS
                      ELSE IF trigger_count >= 2 THEN ENHANCED
                      ELSE STANDARD]

\* DetectionResult(text, indicators, protection_level, trigger_count): the
\* generated __init__ assigns the fields and calls __post_init__; given
\* records the constructor's arguments (not a field of the code)
result_new(indicators, protection_level, trigger_count) ==
    [constructed |-> TRUE,
     given |-> [protection_level |-> protection_level,
                trigger_count |-> trigger_count],
     object |-> result_post_init([text |-> <<"c">>,
                                  indicators |-> indicators,
                                  protection_level |-> protection_level,
                                  trigger_count |-> trigger_count])]

\* DetectionResult.add_indicator
result_add_indicator(r, indicator) ==
    result_post_init([r EXCEPT !.indicators = Append(@, indicator)])

ResultConstruct ==
    /\ ~detection.constructed
    /\ \E indicators \in IndicatorLists, protection_level \in Levels,
          trigger_count \in 0..MaxTriggers :
          detection' =
              result_new(indicators, protection_level, trigger_count)
    /\ UNCHANGED <<op, arg, ret, pc, engine, engine_ret, mgr, mgr_ret,
                   detector_vars, instance_vars, loader_vars, safeguard>>

ResultAddIndicator ==
    /\ detection.constructed
    /\ Len(detection.object.indicators) < MaxIndicators
    /\ \E indicator \in VulnerabilityIndicators :
          detection' =
              [detection EXCEPT
                  !.object = result_add_indicator(@, indicator)]
    /\ UNCHANGED <<op, arg, ret, pc, engine, engine_ret, mgr, mgr_ret,
                   detector_vars, instance_vars, loader_vars, safeguard>>

----------------------------------------------------------------------------
(* CrisisDetectionSafeguard of src/lfas_protocol/safeguards.py and the     *)
(* caller that holds its results                                           *)

\* CrisisDetectionSafeguard.CRISIS_RESOURCES as the class defines it: the
\* 988 Lifeline, the Crisis Text Line and the IASP directory
CRISIS_RESOURCES == <<"988 Lifeline", "Crisis Text Line", "IASP">>

\* class_list is the list object the class attribute refers to, one for
\* all instances; results are the values returned to the caller, in order
SafeguardInit ==
    [class_list |-> CRISIS_RESOURCES, results |-> <<>>, mutations |-> 0]

\* a list the caller was given: shared, it is the list object of the
\* class; otherwise it is a list object of its own with the given content.
\* at_return is its content when the call returned.
class_list_itself(class_list) ==
    [shared |-> TRUE, own |-> <<>>, at_return |-> class_list]

fresh_list(content) ==
    [shared |-> FALSE, own |-> content, at_return |-> content]

\* CrisisDetectionSafeguard.generate_response: the resources of the
\* SafeguardResponse; resources=self.CRISIS_RESOURCES at CRISIS, [] below
safeguard_generate_response(class_list, protection_level) ==
    IF protection_level = CRISIS THEN class_list_itself(class_list)
    ELSE fresh_list(<<>>)

\* CrisisDetectionSafeguard.get_crisis_resources:
\* self.CRISIS_RESOURCES.copy()
safeguard_get_crisis_resources(class_list) == fresh_list(class_list)

SafeguardGenerateResponse(self) ==
    /\ Len(safeguard.results) < MaxResults
    /\ \E protection_level \in Levels :
          safeguard' =
              [safeguard EXCEPT !.results =
                  Append(@, [call |-> "generate_response", self |-> self,
                             protection_level |-> protection_level,
                             resources |->
                                 safeguard_generate_response(
                                     safeguard.class_list, protection_level)])]
    /\ UNCHANGED <<op, arg, ret, pc, engine, engine_ret, mgr, mgr_ret,
                   detector_vars, instance_vars, loader_vars, detection>>

SafeguardGetCrisisResources(self) ==
    /\ Len(safeguard.results) < MaxResults
    /\ safeguard' =
           [safeguard EXCEPT !.results =
               Append(@, [call |-> "get_crisis_resources", self |-> self,
                          protection_level |-> CRISIS,
                          resources |->
                              safeguard_get_crisis_resources(
                                  safeguard.class_list)])]
    /\ UNCHANGED <<op, arg, ret, pc, engine, engine_ret, mgr, mgr_ret,
                   detector_vars, instance_vars, loader_vars, detection>>

\* list.clear() and list.append(x) on a list
ListMutations == {"clear", "append"}

list_mutate(list, mutation) ==
    IF mutation = "clear" THEN <<>> ELSE Append(list, "x")

\* the caller mutates the resources list of the k-th result it holds
CallerMutatesResources ==
    /\ safeguard.mutations < MaxMutations
    /\ \E k \in 1..Len(safeguard.results), mutation \in ListMutations :
          LET held == safeguard.results[k].resources
          IN  safeguard' =
                  IF held.shared
                  THEN [safeguard EXCEPT
                           !.class_list = list_mutate(@, mutation),
                           !.mutations = @ + 1]
                  ELSE [safeguard EXCEPT
                           !.results[k].resources.own = list_mutate(@, mutation),
                           !.mutations = @ + 1]
    /\ UNCHANGED <<op, arg, ret, pc, engine, engine_ret, mgr, mgr_ret,
                   detector_vars, instance_vars, loader_vars, detection>>

ProtocolVarsInit ==
    /\ detection = NoDetectionResult
    /\ safeguard = SafeguardInit

----------------------------------------------------------------------------
(* Spec: one call of a stateless operation *)

Init ==
    /\ pc = "call"
    /\ ret = <<>>
    /\ engine = EngineInit
    /\ engine_ret = <<>>
    /\ mgr = ManagerInit
    /\ mgr_ret = <<>>
    /\ DetectorVarsInit
    /\ InstanceVarsInit
    /\ LoaderVarsInit
    /\ ProtocolVarsInit
    /\ \/ op = "determine_level" /\ arg \in 0..MaxCount
       \/ op = "lfas_assess_crisis" /\ arg \in LfasDetectionResults
       \/ op = "srclfas_assess_crisis" /\ arg \in SrcLfasDetectionResults
       \/ op = "core_count_triggers" /\ arg \in DetectedMappings
       \/ op = "core_detect" /\ arg \in Texts
       \/ op = "detect_history" /\ arg \in DetectCalls
       \/ op = "load_and_detect" /\ arg \in LoadAndDetectCalls
       \/ op = "detect_case" /\ arg \in CaseTexts
       \/ op = "detect_substring" /\ arg \in SubstringPairs

Done(v) ==
    /\ pc = "call"
    /\ pc' = "done"
    /\ ret' = v
    /\ UNCHANGED <<op, arg, engine, engine_ret, mgr, mgr_ret, detector_vars, instance_vars, loader_vars, protocol_vars>>

\* ProtectionLevelManager.determine_level and
\* VulnerabilityDetector._determine_protection_level on the same count
CallDetermineLevel ==
    /\ op = "determine_level"
    /\ Done([core |-> core_determine_level(arg),
             lfas |-> lfas_determine_protection_level(arg)])

CallLfasAssessCrisis ==
    /\ op = "lfas_assess_crisis"
    /\ Done(lfas_assess_crisis(arg))

CallSrcLfasAssessCrisis ==
    /\ op = "srclfas_assess_crisis"
    /\ Done(srclfas_assess_crisis(arg))

CallCoreCountTriggers ==
    /\ op = "core_count_triggers"
    /\ Done(core_count_triggers(arg))

\* detect on a text without history, then count_triggers on its result
CallCoreDetect ==
    /\ op = "core_detect"
    /\ LET detected == core_detect(arg, <<>>)
       IN  Done([detected |-> detected,
                 count |-> core_count_triggers(detected)])

\* detect with a conversation history, on the detector of
\* integrations/core and on the detector of src/src/lfas
CallDetectHistory ==
    /\ op = "detect_history"
    /\ Done([core |-> core_detect(arg.text, arg.history),
             srclfas |-> srclfas_detect(arg.text, arg.history)])

\* a detector constructed on a specification file, then one detect call
CallLoadAndDetect ==
    /\ op = "load_and_detect"
    /\ Done(Return(lfas_detect_on(arg.document, arg.user_input)))

\* detect on a text, on its upper-cased and on its lower-cased form, by
\* the detector of src/lfas_protocol and by the detector of src/src/lfas
CallDetectCase ==
    /\ op = "detect_case"
    /\ Done([protocol |-> [text |-> protocol_detect(arg),
                           upper |-> protocol_detect(Upper(arg)),
                           lower |-> protocol_detect(Lower(arg))],
             srclfas |-> [text |-> srclfas_detect(arg, <<>>),
                          upper |-> srclfas_detect(Upper(arg), <<>>),
                          lower |-> srclfas_detect(Lower(arg), <<>>)]])

\* detect without history on a text and on a substring of it, by the
\* detector of src/lfas_protocol and by the detector of src/src/lfas
CallDetectSubstring ==
    /\ op = "detect_substring"
    /\ Done([protocol |-> [a |-> protocol_detect(arg.a),
                           b |-> protocol_detect(arg.b)],
             srclfas |-> [a |-> srclfas_detect(arg.a, <<>>),
                          b |-> srclfas_detect(arg.b, <<>>)]])

Next ==
    \/ CallDetermineLevel
    \/ CallLfasAssessCrisis
    \/ CallSrcLfasAssessCrisis
    \/ CallCoreCountTriggers
    \/ CallCoreDetect
    \/ CallDetectHistory
    \/ CallLoadAndDetect
    \/ CallDetectCase
    \/ CallDetectSubstring

Spec == Init /\ [][Next]_vars

----------------------------------------------------------------------------
(* Specifications of the two sessions *)

InitSession ==
    /\ op = "session"
    /\ arg = <<>>
    /\ ret = <<>>
    /\ pc = "idle"
    /\ engine = EngineInit
    /\ engine_ret = <<>>
    /\ mgr = ManagerInit
    /\ mgr_ret = <<>>
    /\ DetectorVarsInit
    /\ InstanceVarsInit
    /\ LoaderVarsInit
    /\ ProtocolVarsInit

EngineNext == EngineProcessMessage \/ EngineReset

SpecEngine == InitSession /\ [][EngineNext]_vars

ManagerNext == ManagerUpdate \/ ManagerReset

SpecManager == InitSession /\ [][ManagerNext]_vars

----------------------------------------------------------------------------
(* Specifications of the VulnerabilityDetector of src/lfas *)

\* a caller with a list of its own, and a fresh detector
InitDetector ==
    /\ op = "detector"
    /\ arg = <<>>
    /\ ret = <<>>
    /\ pc = "idle"
    /\ engine = EngineInit
    /\ engine_ret = <<>>
    /\ mgr = ManagerInit
    /\ mgr_ret = <<>>
    /\ detector = DetectorInit
    /\ caller_h \in {h \in Histories : Len(h) <= 1}
    /\ calls = <<>>
    /\ threads = [t \in Threads |-> NoCall]
    /\ InstanceVarsInit
    /\ LoaderVarsInit
    /\ ProtocolVarsInit

DetectorNext == DetectorDetect \/ DetectorResetHistory

SpecDetector == InitDetector /\ [][DetectorNext]_vars

\* every thread is about to call detect on the shared, fresh detector
InitThreads ==
    /\ op = "threads"
    /\ arg = <<>>
    /\ ret = <<>>
    /\ pc = "idle"
    /\ engine = EngineInit
    /\ engine_ret = <<>>
    /\ mgr = ManagerInit
    /\ mgr_ret = <<>>
    /\ detector = DetectorInit
    /\ caller_h = <<>>
    /\ calls = <<>>
    /\ threads \in [Threads -> StartedCalls]
    /\ InstanceVarsInit
    /\ LoaderVarsInit
    /\ ProtocolVarsInit

ThreadsNext ==
    \E t \in Threads :
        \/ ThreadLoad(t)
        \/ ThreadAppend(t)
        \/ ThreadScan(t)
        \/ ThreadReturn(t)

SpecThreads == InitThreads /\ [][ThreadsNext]_vars

----------------------------------------------------------------------------
(* Specifications of the middleware and of instances side by side *)

\* one middleware session, on instance A
InitMiddleware ==
    /\ op = "middleware"
    /\ arg = <<>>
    /\ ret = <<>>
    /\ pc = "idle"
    /\ engine = EngineInit
    /\ engine_ret = <<>>
    /\ mgr = ManagerInit
    /\ mgr_ret = <<>>
    /\ DetectorVarsInit
    /\ InstanceVarsInit
    /\ LoaderVarsInit
    /\ ProtocolVarsInit

MiddlewareNext ==
    \/ MwProcessRequest("A", MwMessages, MaxMwTurns)
    \/ MwProcessWithResponse("A", MwMessages, MaxMwTurns)
    \/ MwReset("A")

SpecMiddleware == InitMiddleware /\ [][MiddlewareNext]_vars

\* one middleware session long enough to overflow the history
LongNext ==
    \/ MwProcessRequest("A", LongMessages, MaxLongTurns)
    \/ MwProcessWithResponse("A", LongMessages, MaxLongTurns)
    \/ MwReset("A")

SpecLongSession == InitMiddleware /\ [][LongNext]_vars

\* one middleware session of a few turns, with messages of three phrases,
\* of one phrase and of none
DecayNext ==
    \/ MwProcessRequest("A", DecayMessages, MaxDecayTurns)
    \/ MwProcessWithResponse("A", DecayMessages, MaxDecayTurns)
    \/ MwReset("A")

SpecDecay == InitMiddleware /\ [][DecayNext]_vars

\* one middleware session whose generator returns or raises; the calls,
\* failed ones included, are those the protection manager has recorded
GeneratorNext ==
    \/ /\ Len(mw["A"].protection_manager.trigger_history) < MaxGeneratorTurns
       /\ \/ MwProcessRequest("A", GeneratorMessages, MaxGeneratorTurns)
          \/ MwGeneratorRaises("A", GeneratorMessages, MaxGeneratorTurns)
    \/ MwReset("A")

SpecGenerator == InitMiddleware /\ [][GeneratorNext]_vars

\* one session of one of the three kinds
InitSessions ==
    /\ op \in {"LFASMiddleware", "LFASEngine", "ProtectionLevelManager"}
    /\ arg = <<>>
    /\ ret = <<>>
    /\ pc = "idle"
    /\ engine = EngineInit
    /\ engine_ret = <<>>
    /\ mgr = ManagerInit
    /\ mgr_ret = <<>>
    /\ DetectorVarsInit
    /\ InstanceVarsInit
    /\ LoaderVarsInit
    /\ ProtocolVarsInit

SessionsNext ==
    \/ op = "LFASMiddleware" /\ MiddlewareNext
    \/ op = "LFASEngine" /\ EngineNext
    \/ op = "ProtectionLevelManager" /\ ManagerNext

SpecSessions == InitSessions /\ [][SessionsNext]_vars

\* two instances of one class, whose turns interleave
InitIsolation ==
    /\ op \in {"LFASMiddleware", "LFASEngine"}
    /\ arg = <<>>
    /\ ret = <<>>
    /\ pc = "idle"
    /\ engine = EngineInit
    /\ engine_ret = <<>>
    /\ mgr = ManagerInit
    /\ mgr_ret = <<>>
    /\ DetectorVarsInit
    /\ InstanceVarsInit
    /\ LoaderVarsInit
    /\ ProtocolVarsInit

IsolationNext ==
    \E self \in Instances :
        \/ /\ op = "LFASMiddleware"
           /\ \/ MwProcessRequest(self, MwMessages, MaxPairTurns)
              \/ MwProcessWithResponse(self, MwMessages, MaxPairTurns)
              \/ MwReset(self)
        \/ /\ op = "LFASEngine"
           /\ \/ PairEngineProcessMessage(self)
              \/ PairEngineReset(self)

SpecIsolation == InitIsolation /\ [][IsolationNext]_vars

\* a loader shared by a thread that reloads and a thread that reads
InitReload ==
    /\ op = "reload"
    /\ arg = <<>>
    /\ ret = <<>>
    /\ pc = "idle"
    /\ engine = EngineInit
    /\ engine_ret = <<>>
    /\ mgr = ManagerInit
    /\ mgr_ret = <<>>
    /\ DetectorVarsInit
    /\ InstanceVarsInit
    /\ LoaderVarsInit
    /\ ProtocolVarsInit

ReloadNext ==
    \/ ReloadParse
    \/ ReloadAssignTree
    \/ ReloadAssignRoot
    \/ ReadRoot
    \/ ReadChild

SpecReload == InitReload /\ [][ReloadNext]_vars

----------------------------------------------------------------------------
(* Specifications of the classes of src/lfas_protocol *)

InitProtocol ==
    /\ op = "lfas_protocol"
    /\ arg = <<>>
    /\ ret = <<>>
    /\ pc = "idle"
    /\ engine = EngineInit
    /\ engine_ret = <<>>
    /\ mgr = ManagerInit
    /\ mgr_ret = <<>>
    /\ DetectorVarsInit
    /\ InstanceVarsInit
    /\ LoaderVarsInit
    /\ ProtocolVarsInit

\* one DetectionResult: its construction, then add_indicator calls
DetectionResultNext == ResultConstruct \/ ResultAddIndicator

SpecDetectionResult == InitProtocol /\ [][DetectionResultNext]_vars

\* two CrisisDetectionSafeguard instances and the caller of both
SafeguardNext ==
    \/ \E self \in Instances : SafeguardGenerateResponse(self)
    \/ \E self \in Instances : SafeguardGetCrisisResources(self)
    \/ CallerMutatesResources

SpecSafeguard == InitProtocol /\ [][SafeguardNext]_vars

----------------------------------------------------------------------------
(* Properties *)

\* the level the specification assigns to a trigger count
SpecLevel(n) ==
    IF n = 0 THEN STANDARD ELSE IF n <= 2 THEN ENHANCED ELSE CRISIS

\* C1: the level classifiers are total on the trigger count: for every
\* count n both determine_level(n) and _determine_protection_level(n)
\* return a level, which is STANDARD iff n = 0, ENHANCED iff 1 <= n <= 2
\* and CRISIS iff n >= 3.
C1_LevelIsFunctionOfCount ==
    (op = "determine_level" /\ pc = "done") =>
        \A r \in {ret.core, ret.lfas} :
            /\ r \in Levels
            /\ (r = STANDARD) <=> (arg = 0)
            /\ (r = ENHANCED) <=> (1 <= arg /\ arg <= 2)
            /\ (r = CRISIS) <=> (arg >= 3)

\* C1 witness: both classifiers have returned ENHANCED for a count of 2
C1_Witness ==
    /\ op = "determine_level" /\ pc = "done" /\ arg = 2
    /\ ret.core = ENHANCED /\ ret.lfas = ENHANCED

\* a step of the engine that is one process_message turn
EngineTurn ==
    Len(engine'.conversation_history) = Len(engine.conversation_history) + 1

RECURSIVE CleanRun(_, _)
CleanRun(h, i) ==
    IF i = 0 \/ h[i].triggers # 0 THEN 0 ELSE 1 + CleanRun(h, i - 1)

\* C3: de-escalation in LFASEngine is delayed: an elevated session returns
\* to STANDARD exactly on the turn that completes three consecutive
\* zero-trigger turns; the first and the second of them leave the level as
\* it was, and a turn with triggers sets the streak back to 0 and keeps the
\* session elevated.
C3_DeEscalationAfterThreeCleanTurns ==
    LET h == engine.conversation_history
    IN  /\ engine.exchanges_without_triggers = CleanRun(h, Len(h))
        /\ h # <<>> => engine.current_protection_level = h[Len(h)].level
        /\ \A i \in 2..Len(h) :
            h[i - 1].level # STANDARD =>
                /\ CleanRun(h, i - 1) < 3
                /\ IF h[i].triggers # 0 THEN h[i].level # STANDARD
                   ELSE IF CleanRun(h, i) = 3 THEN h[i].level = STANDARD
                   ELSE h[i].level = h[i - 1].level

\* C3 witness: turn 1 CRISIS, a clean turn, a turn with a trigger, then
\* three clean turns: STANDARD only at the last
C3_Witness ==
    LET h == engine.conversation_history
    IN  /\ Len(h) = 6
        /\ h[1].triggers = 3 /\ h[1].level = CRISIS
        /\ h[2].triggers = 0 /\ h[2].level = CRISIS
        /\ h[3].triggers = 1 /\ h[3].level = CRISIS
        /\ h[4].triggers = 0 /\ h[4].level = CRISIS
        /\ h[5].triggers = 0 /\ h[5].level = CRISIS
        /\ h[6].triggers = 0 /\ h[6].level = STANDARD

\* a step of the manager that is one update
ManagerTurn ==
    Len(mgr'.trigger_history) = Len(mgr.trigger_history) + 1

\* C4: ProtectionLevelManager.update delays de-escalation: with the level
\* at ENHANCED or CRISIS, an update with no trigger leaves current_level as
\* it is while exchanges_since_clear is below 3.
C4_UpdateDelaysDeEscalation ==
    [][(/\ ManagerTurn
        /\ mgr.current_level # STANDARD
        /\ mgr'.trigger_history[Len(mgr'.trigger_history)] = 0
        /\ mgr'.exchanges_since_clear < 3)
       => mgr'.current_level = mgr.current_level]_vars

\* the crisis types with a keyword in the text
KeywordTypes(text) ==
    {t \in Range(CrisisTypeOrder) :
        \E k \in DOMAIN crisis_keywords[t] :
            Contains(crisis_keywords[t][k], Lower(text))}

\* the priority rule of the specification
PriorityType(D) ==
    IF Cardinality(D) > 1 /\ "mental_health" \in D THEN "mental_health"
    ELSE IF Cardinality(D) > 1 THEN "mixed"
    ELSE IF Cardinality(D) = 1 THEN CHOOSE t \in D : TRUE
    ELSE "mental_health"

LfasCrisisCall ==
    op = "lfas_assess_crisis" /\ pc = "done" /\ arg.protection_level = CRISIS

\* C5: assess_crisis of src/lfas/crisis.py returns, for a CRISIS-level
\* result, the crisis type the priority rule gives for the set of crisis
\* types whose keywords occur in original_input.
C5_PriorityRule ==
    LfasCrisisCall =>
        /\ ret.exc = "none"
        /\ ret.val.crisis_type =
               CrisisType[PriorityType(KeywordTypes(arg.original_input))]

\* C6: assess_crisis on a result below CRISIS raises ValueError and returns
\* no crisis result.
C6_BelowCrisisRaisesValueError ==
    (op = "lfas_assess_crisis" /\ pc = "done" /\ arg.protection_level < CRISIS)
        => ret.exc = "ValueError"

\* the severity the specification derives from the trigger count
SpecSeverity(n) ==
    IF n >= 5 THEN "critical" ELSE IF n >= 3 THEN "high" ELSE "moderate"

\* C7: the CrisisResult returned for a CRISIS-level result carries the
\* severity derived from triggers_count.
C7_SeverityFromTriggerCount ==
    LfasCrisisCall =>
        /\ ret.exc = "none"
        /\ "severity" \in DOMAIN ret.val
        /\ ret.val.severity = SpecSeverity(arg.triggers_count)

\* C8: every response of assess_crisis of src/src/lfas/crisis.py with
\* crisis_detected holds at least one resource.
C8_CrisisResponseHasResource ==
    (op = "srclfas_assess_crisis" /\ pc = "done" /\ ret.crisis_detected)
        => Len(ret.resources) >= 1

\* the field of a CrisisResult that lists its resources
ResourcesOf(result) ==
    IF "resources" \in DOMAIN result THEN result.resources
    ELSE result.primary_resources

\* C9: for a CRISIS-level result with triggers_count >= 4 whose primary
\* type is not mental_health, the resources returned by assess_crisis of
\* src/lfas/crisis.py include a mental-health resource.
C9_MentalHealthResourceWhenSevere ==
    (/\ LfasCrisisCall
     /\ arg.triggers_count >= 4
     /\ PriorityType(KeywordTypes(arg.original_input)) # "mental_health")
    => /\ ret.exc = "none"
       /\ \E i \in DOMAIN ResourcesOf(ret.val) :
            \E j \in DOMAIN crisis_resources["mental_health"] :
                ResourcesOf(ret.val)[i].name =
                    crisis_resources["mental_health"][j].name

\* every phrase of the taxonomy of integrations/core/detector.py
CorePhrases ==
    UNION {Range(core_all_indicators[category]) : category \in Categories}

RecentIndices(history) ==
    {i \in DOMAIN history : i > Len(history) - 3}

\* the phrase is contained in the message, case-insensitively
InMessage(phrase, message) == Contains(Lower(phrase), Lower(message))

\* the phrase is contained in one of the last three entries, taken alone
InRecent(phrase, history) ==
    \E i \in RecentIndices(history) : InMessage(phrase, history[i])

\* the phrase is contained in an entry older than the last three
InOlder(phrase, history) ==
    \E i \in DOMAIN history \ RecentIndices(history) :
        InMessage(phrase, history[i])

HistoryCall == op = "detect_history" /\ pc = "done"

\* the window of three entries on the detector of integrations/core
HistoryWindowCore ==
    \A category \in Categories :
        \A phrase \in Range(core_all_indicators[category]) :
            LET matched == phrase \in Range(ret.core[category])
            IN  /\ InRecent(phrase, arg.history) => matched
                /\ (/\ InOlder(phrase, arg.history)
                    /\ ~InRecent(phrase, arg.history)
                    /\ ~InMessage(phrase, arg.text)) => ~matched

\* the window of three entries on the detector of src/src/lfas
HistoryWindowSrcLfas ==
    \A e \in SrcLfasEntries :
        LET matched == e[2] \in Range(ret.srclfas.triggered_indicators)
        IN  /\ InRecent(e[2], arg.history) =>
                /\ matched
                /\ e[1] \in ret.srclfas.triggered_categories
                /\ ret.srclfas.trigger_count >= 1
            /\ (/\ InOlder(e[2], arg.history)
                /\ ~InRecent(e[2], arg.history)
                /\ ~InMessage(e[2], arg.text)) => ~matched

\* C11: with a conversation history, a phrase contained in one of the last
\* three entries counts toward the turn's triggers and categories, and a
\* phrase contained only in entries older than the last three does not,
\* on the detector of integrations/core and on that of src/src/lfas.
C11_HistoryWindowOfThree ==
    HistoryCall => HistoryWindowCore /\ HistoryWindowSrcLfas

\* the phrases of a category that the input or one of the last three
\* entries, taken alone, contains
PerEntryMatches(all_indicators, category) ==
    {phrase \in Range(all_indicators[category]) :
        \/ InMessage(phrase, arg.text)
        \/ InRecent(phrase, arg.history)}

\* C12: history matching of src/src/lfas/detector.py is per entry: the
\* phrases it matches in a category are those contained in the input or in
\* one of the last three entries taken alone, which are the phrases the
\* per-message scan of integrations/core matches on the same taxonomy.
C12_HistoryMatchingIsPerEntry ==
    HistoryCall =>
        \A category \in Categories :
            LET matched ==
                    {phrase \in Range(srclfas_indicators[category]) :
                        phrase \in Range(ret.srclfas.triggered_indicators)}
                scanned ==
                    Range(core_detect_with(srclfas_indicators, arg.text,
                                           arg.history)[category])
            IN  /\ matched = PerEntryMatches(srclfas_indicators, category)
                /\ matched = scanned

\* calls i and i + 1 are two detect calls, one right after the other, with
\* the same arguments
SameCallTwice(i) ==
    /\ i \in 1..(Len(calls) - 1)
    /\ calls[i].history_arg \in {"None", "h"}
    /\ calls[i + 1].history_arg = calls[i].history_arg
    /\ calls[i + 1].user_input = calls[i].user_input

\* C13: detect of src/lfas/detector.py is idempotent: two consecutive calls
\* on one detector with identical input return DetectionResults equal in
\* every field.
C13_DetectIsIdempotent ==
    \A i \in 1..(Len(calls) - 1) :
        SameCallTwice(i) => calls[i + 1].result = calls[i].result

\* C14: detect(user_input, conversation_history=h) leaves the caller's
\* list h as it was.
C14_DetectLeavesHistoryArgument ==
    \A i \in DOMAIN calls :
        calls[i].history_arg = "h" => calls[i].h_after = calls[i].h_before

\* what detect(user_input) returns on a detector nobody else uses
SequentialResult(user_input) ==
    lfas_detect(DetectorInit, <<>>, user_input, "None").result

\* the number of entries of a list that equal m
Occurrences(list, m) == Cardinality({i \in DOMAIN list : list[i] = m})

\* C18: concurrent detect calls on one shared detector are safe: every
\* call returns the triggers_count and protection_level of a sequential
\* call with its input, the history holds the input of every call that has
\* appended exactly once, and so, when all calls are done, every input
\* exactly once.
C18_ConcurrentDetectIsSafe ==
    /\ \A t \in Threads :
          threads[t].pc = "done" =>
            /\ threads[t].result.triggers_count =
                   SequentialResult(threads[t].user_input).triggers_count
            /\ threads[t].result.protection_level =
                   SequentialResult(threads[t].user_input).protection_level
            /\ Occurrences(threads[t].result.conversation_history,
                           threads[t].user_input) >= 1
    /\ \A m \in Messages :
          Occurrences(detector.conversation_history, m) =
              Cardinality({t \in Threads :
                              /\ threads[t].pc \in {"appended", "scanned", "done"}
                              /\ threads[t].user_input = m})

\* C18 witness: two calls, "last hope" and "no insurance", that both
\* evaluated self.conversation_history before either appended, are done
C18_Witness ==
    /\ \A t \in Threads : threads[t].pc = "done" /\ threads[t].loaded = <<>>
    /\ threads[1].user_input = <<"c", " ", "c">>
    /\ threads[1].result.triggers_count = 1
    /\ threads[2].user_input = <<"h">>
    /\ Len(detector.conversation_history) = NumThreads

Min(a, b) == IF a <= b THEN a ELSE b

\* the last k entries of a list
LastEntries(list, k) == SubSeq(list, Len(list) - k + 1, Len(list))

\* the history list of a middleware instance
HistoryOf(self) == heap[mw[self].conversation_history]

\* C15: LFASMiddleware.conversation_history is bounded: after n completed
\* process_request / process_with_response calls since construction or
\* reset it holds the last min(n, 10) user inputs, in arrival order.
C15_HistoryIsLastTen ==
    LET inputs == mw["A"].inputs_since_reset
        n == Len(inputs)
    IN  /\ Len(HistoryOf("A")) = Min(n, 10)
        /\ HistoryOf("A") = LastEntries(inputs, Min(n, 10))

\* C15 witness: twelve calls are done, the two oldest inputs, a "last
\* hope" and an empty one, are dropped and the third is now the oldest
C15_Witness ==
    LET inputs == mw["A"].inputs_since_reset
    IN  /\ Len(inputs) = 12
        /\ inputs[1] = <<"c">> /\ inputs[2] = <<>> /\ inputs[3] = <<"c">>
        /\ inputs[11] = <<>> /\ inputs[12] = <<"c">>
        /\ Len(HistoryOf("A")) = 10
        /\ HistoryOf("A")[1] = inputs[3]
        /\ HistoryOf("A")[10] = inputs[12]

\* the step is a reset of the middleware, of the engine, of the manager
IsMwReset == mw_ret' # mw_ret /\ mw_ret'.call = "reset"
IsEngineReset ==
    op = "LFASEngine" /\ engine.conversation_history # <<>>
    /\ engine'.conversation_history = <<>>
IsManagerReset ==
    op = "ProtectionLevelManager" /\ mgr.trigger_history # <<>>
    /\ mgr'.trigger_history = <<>>

\* C16: reset returns a session to its initial state: after
\* LFASMiddleware.reset, LFASEngine.reset and ProtectionLevelManager.reset
\* the level is STANDARD, the clean-turn counter is 0 and the history is
\* empty; every field is as on a freshly constructed instance, so the
\* turns that follow behave as on a fresh instance.
C16_ResetRestoresInitialState ==
    [][/\ IsMwReset =>
            /\ mw'["A"] = MiddlewareInit("A")
            /\ heap'[mw'["A"].conversation_history] = <<>>
            /\ mw'["A"].protection_manager.current_level = STANDARD
            /\ mw'["A"].protection_manager.exchanges_since_clear = 0
       /\ IsEngineReset =>
            /\ engine' = EngineInit
            /\ engine'.current_protection_level = STANDARD
            /\ engine'.exchanges_without_triggers = 0
       /\ IsManagerReset =>
            /\ mgr' = ManagerInit
            /\ mgr'.current_level = STANDARD
            /\ mgr'.exchanges_since_clear = 0
      ]_vars

\* C16 witness: a middleware session has just been reset after at least
\* one turn, and is as a freshly constructed one
C16_Witness ==
    /\ op = "LFASMiddleware"
    /\ mw_ret # <<>> /\ mw_ret.call = "reset"
    /\ mw["A"].protection_manager.current_level = STANDARD
    /\ mw["A"].protection_manager.exchanges_since_clear = 0
    /\ HistoryOf("A") = <<>>

\* what a session shows of an instance: level, clean-turn counter, history
MwView(self) ==
    [level |-> mw[self].protection_manager.current_level,
     counter |-> mw[self].protection_manager.exchanges_since_clear,
     trigger_history |-> mw[self].protection_manager.trigger_history,
     history |-> HistoryOf(self)]

\* C17: sessions are isolated: a turn or a reset on one LFASMiddleware (or
\* LFASEngine) instance leaves the level, the clean-turn counter and the
\* history of every other instance unchanged.
C17_SessionsAreIsolated ==
    [][\A self \in Instances :
         /\ (op = "LFASMiddleware" /\ mw_ret'.self # self) =>
                MwView(self)' = MwView(self)
         /\ (op = "LFASEngine" /\ \E other \in Instances \ {self} :
                                     engines'[other] # engines[other]) =>
                engines'[self] = engines[self]
      ]_vars

\* C17 witness: B has just handled a clean turn and is at STANDARD while A,
\* which handled three triggers before, still shows CRISIS and its history
C17_Witness ==
    /\ op = "LFASMiddleware"
    /\ mw_ret # <<>> /\ mw_ret.self = "B"
    /\ mw_ret.call = "process_request"
    /\ MwView("B").level = STANDARD
    /\ MwView("B").history = << <<>> >>
    /\ MwView("A").level = CRISIS
    /\ MwView("A").history = << <<"c", "f", "i">> >>

\* the last call was process_request
RequestReturned == mw_ret # <<>> /\ mw_ret.call = "process_request"

\* the turn ended at CRISIS with crisis_language detected
CrisisLanguageTurn ==
    /\ mw_ret.metadata.protection_level = CRISIS
    /\ "crisis_language" \in mw_ret.metadata.detected_categories

\* C20: in process_request, a turn whose level is CRISIS with
\* crisis_language among the detected categories never invokes
\* ai_response_generator and returns the crisis response with the crisis
\* resources (988); every other turn invokes the generator exactly once.
C20_CrisisTurnSkipsGenerator ==
    RequestReturned =>
        IF CrisisLanguageTurn
        THEN /\ mw_ret.generator_calls = 0
             /\ mw_ret.response =
                    <<"VR-24 crisis response", "CRISIS_RESOURCES">>
        ELSE mw_ret.generator_calls = 1

\* C20 witness: "last hope" on a turn whose two other triggers come from
\* the history was answered with the crisis response, without the generator
C20_Witness ==
    /\ RequestReturned
    /\ CrisisLanguageTurn
    /\ mw["A"].inputs_since_reset[Len(mw["A"].inputs_since_reset)] = <<"c">>
    /\ mw_ret.metadata.trigger_count >= 3
    /\ mw_ret.generator_calls = 0
    /\ "CRISIS_RESOURCES" \in Range(mw_ret.response)

\* what a getter returns when nothing else runs, on a loaded tree
GetterResult(root, getter) ==
    [i \in DOMAIN SectionKeys(getter) |->
        <<SectionKeys(getter)[i], root[getter][SectionKeys(getter)[i]]>>]

\* C19: reload publishes the new specification atomically: a getter that
\* runs while reload runs returns the data of one specification that was
\* loaded, the old or the new, never a mixture; and a reload that fails to
\* parse leaves the loaded specification in place.
C19_ReloadIsAtomic ==
    /\ reader.pc = "done" =>
          \E root \in reloader.published :
              reader.result = GetterResult(root, reader.getter)
    /\ reloader.pc = "failed" => loader = reloader.before
    /\ loader._root \in WellFormedFiles

\* C19 witness: the getter started on the first specification, the second
\* was published while it iterated, it returned the first one's data, and
\* a later reload of a malformed file failed
C19_Witness ==
    /\ reader.pc = "done"
    /\ reader.getter = "detection_indicators"
    /\ reader.result = GetterResult(SpecFileOne, "detection_indicators")
    /\ reloader.pc = "failed"
    /\ reloader.parsed.exc = "ValueError"
    /\ loader._root = SpecFileTwo

----------------------------------------------------------------------------
(* C21: empty and whitespace-only inputs *)

\* the text has no character other than whitespace
IsBlank(text) == \A i \in 1..Len(text) : text[i] = " "

\* a load_and_detect call has returned
LoadedDetectReturned == op = "load_and_detect" /\ pc = "done"

\* C21: detect (src/lfas/detector.py) on an empty or whitespace-only
\* input raises no error and returns triggers_count 0 and level STANDARD,
\* whatever taxonomy load_vulnerability_indicators gave the detector
C21_BlankInputHasNoTriggers ==
    (LoadedDetectReturned /\ IsBlank(arg.user_input)) =>
        /\ ret.exc = "none"
        /\ ret.val.triggers_count = 0
        /\ ret.val.protection_level = STANDARD

\* the taxonomy has no empty phrase
NoEmptyPhrase(indicators) ==
    \A tag \in DOMAIN indicators :
        \A i \in 1..Len(indicators[tag]) : indicators[tag][i] # <<>>

\* the same, for the taxonomies in which every phrase has a character
C21_BlankInputNonEmptyPhrases ==
    (/\ LoadedDetectReturned
     /\ IsBlank(arg.user_input)
     /\ NoEmptyPhrase(load_vulnerability_indicators(arg.document))) =>
        /\ ret.exc = "none"
        /\ ret.val.triggers_count = 0
        /\ ret.val.protection_level = STANDARD

----------------------------------------------------------------------------
(* C22: case-insensitive matching *)

DetectCaseReturned == op = "detect_case" /\ pc = "done"

\* the three results agree on trigger count and categories
SameCountAndCategories ==
    /\ ret.protocol.upper.indicator_count = ret.protocol.text.indicator_count
    /\ ret.protocol.lower.indicator_count = ret.protocol.text.indicator_count
    /\ ret.protocol.upper.categories = ret.protocol.text.categories
    /\ ret.protocol.lower.categories = ret.protocol.text.categories
    /\ ret.srclfas.upper.trigger_count = ret.srclfas.text.trigger_count
    /\ ret.srclfas.lower.trigger_count = ret.srclfas.text.trigger_count
    /\ ret.srclfas.upper.triggered_categories
           = ret.srclfas.text.triggered_categories
    /\ ret.srclfas.lower.triggered_categories
           = ret.srclfas.text.triggered_categories

\* C22: for every input text, detect on the text, on its upper-cased form
\* and on its lower-cased form returns the same trigger count and the
\* same set of triggered categories
C22_MatchingIsCaseInsensitive == DetectCaseReturned => SameCountAndCategories

\* the same, for the texts whose letters are the upper or lower case of
\* each other under both str.upper and str.lower
C22_CaseInsensitiveWithoutLongS ==
    (DetectCaseReturned /\ "ls" \notin Range(arg)) => SameCountAndCategories

----------------------------------------------------------------------------
(* C23: level thresholds of the detector of src/src/lfas *)

\* the DetectionResults of src/src/lfas detect that a finished call returned
SrcLfasReturned ==
    IF pc # "done" THEN {}
    ELSE IF op = "detect_history" THEN {ret.srclfas}
    ELSE IF op = "detect_substring" THEN {ret.srclfas.a, ret.srclfas.b}
    ELSE IF op = "detect_case"
         THEN {ret.srclfas.text, ret.srclfas.upper, ret.srclfas.lower}
    ELSE {}

\* C23: detect of src/src/lfas/detector.py returns STANDARD when
\* trigger_count is 0 or 1, ENHANCED when it is exactly 2 and CRISIS when it
\* is 3 or more, and trigger_count equals len(triggered_indicators)
C23_SingleTriggerDoesNotEscalate ==
    \A r \in SrcLfasReturned :
        /\ r.trigger_count = Len(r.triggered_indicators)
        /\ r.trigger_count \in {0, 1} => r.protection_level = STANDARD
        /\ r.trigger_count = 2 => r.protection_level = ENHANCED
        /\ r.trigger_count >= 3 => r.protection_level = CRISIS

\* a text with three phrases is CRISIS and its substring with one phrase
\* is STANDARD
C23_Witness ==
    /\ op = "detect_substring"
    /\ pc = "done"
    /\ ret.srclfas.a.trigger_count = 1
    /\ ret.srclfas.a.protection_level = STANDARD
    /\ ret.srclfas.b.trigger_count = 3
    /\ ret.srclfas.b.protection_level = CRISIS

----------------------------------------------------------------------------
(* C29: stateless detection is monotone in the text *)

DetectSubstringReturned == op = "detect_substring" /\ pc = "done"

\* C29: if text a is a substring of text b then every phrase triggered by
\* a is triggered by b, trigger_count(b) >= trigger_count(a) and
\* protection_level(b) >= protection_level(a), for the detectors of
\* src/lfas_protocol and src/src/lfas called without history
C29_DetectionIsMonotone ==
    DetectSubstringReturned =>
        /\ Range(ret.protocol.a.triggered_indicators)
               \subseteq Range(ret.protocol.b.triggered_indicators)
        /\ ret.protocol.b.indicator_count >= ret.protocol.a.indicator_count
        /\ ret.protocol.b.protection_level >= ret.protocol.a.protection_level
        /\ Range(ret.srclfas.a.triggered_indicators)
               \subseteq Range(ret.srclfas.b.triggered_indicators)
        /\ ret.srclfas.b.trigger_count >= ret.srclfas.a.trigger_count
        /\ ret.srclfas.b.protection_level >= ret.srclfas.a.protection_level

\* a proper substring with one phrase, in a text that adds two phrases and
\* raises the level of both detectors
C29_Witness ==
    /\ DetectSubstringReturned
    /\ arg.a # arg.b
    /\ ret.protocol.a.indicator_count = 1
    /\ ret.protocol.b.indicator_count = 3
    /\ ret.protocol.a.protection_level = ENHANCED
    /\ ret.protocol.b.protection_level = CRISIS
    /\ ret.srclfas.a.protection_level = STANDARD
    /\ ret.srclfas.b.protection_level = CRISIS

----------------------------------------------------------------------------
(* C24: the trigger count of a middleware turn *)

\* the phrases of the taxonomy that a message contains
PhrasesIn(message) ==
    {phrase \in CorePhrases : Contains(Lower(phrase), Lower(message))}

\* a middleware turn of instance A has returned
TurnReturned ==
    /\ mw_ret # <<>>
    /\ mw_ret.call \in {"process_request", "process_with_response"}

\* the current message and the up to three messages before it
WindowOfTurn ==
    LET inputs == mw["A"].inputs_since_reset
    IN  {inputs[k] : k \in Max(1, Len(inputs) - 3)..Len(inputs)}

\* message k has three or more phrases and every later message has none
FadingSince(k) ==
    LET inputs == mw["A"].inputs_since_reset
    IN  /\ Cardinality(PhrasesIn(inputs[k])) >= 3
        /\ \A j \in (k + 1)..Len(inputs) : PhrasesIn(inputs[j]) = {}

----------------------------------------------------------------------------
(* C25, C28: the phases of process_request and a generator that raises *)

\* the step is a process_request call of instance A that returned, or
\* that ended with the exception of its generator
IsRequestStep ==
    /\ mw' # mw
    /\ mw_ret'.call \in {"process_request", "generator_raises"}

IsRaisingStep == mw' # mw /\ mw_ret'.call = "generator_raises"

\* the protection manager after REFLECT on the message of the step
Reflected ==
    core_update(mw["A"].protection_manager,
                core_count_triggers(core_detect(mw_ret'.user_input,
                                                HistoryOf("A"))))

\* C25: process_request runs LISTEN, REFLECT, ACT, ACKNOWLEDGE in this
\* order: detect gets the history without the current message, the
\* generator, when invoked, finds the protection manager at the level of
\* the current turn and the history still without the current message,
\* and the message is appended after the response is produced
C25_PhasesRunInOrder ==
    [][IsRequestStep =>
          /\ mw_ret'.detect_history = HistoryOf("A")
          /\ \A i \in 1..Len(mw_ret'.generator_saw) :
                 /\ mw_ret'.generator_saw[i].current_level
                        = Reflected.current_level
                 /\ mw_ret'.generator_saw[i].conversation_history
                        = HistoryOf("A")
          /\ mw_ret'.call = "process_request" =>
                 /\ mw_ret'.metadata.protection_level = Reflected.current_level
                 /\ HistoryOf("A")'
                        = Append(HistoryOf("A"), mw_ret'.user_input)]_vars

\* after a turn without triggers, "can't afford medication" makes the
\* turn CRISIS: the generator found CRISIS, and a history of one message
C25_Witness ==
    /\ mw_ret # <<>>
    /\ mw_ret.call = "process_request"
    /\ mw["A"].inputs_since_reset = << <<>>, <<"f", "h">> >>
    /\ mw["A"].protection_manager.trigger_history = <<0, 3>>
    /\ mw_ret.generator_saw =
           <<[current_level |-> CRISIS, conversation_history |-> << <<>> >>]>>
    /\ HistoryOf("A") = << <<>>, <<"f", "h">> >>

\* C28: when ai_response_generator raises inside process_request the
\* exception reaches the caller, the protection manager has recorded the
\* turn (current_level, trigger_history, exchanges_since_clear) and
\* conversation_history is as it was before the call
C28_GeneratorErrorLeavesPartialUpdate ==
    [][IsRaisingStep =>
          /\ mw_ret'.exc = "GeneratorError"
          /\ mw'["A"].protection_manager = Reflected
          /\ HistoryOf("A")' = HistoryOf("A")
          /\ mw'["A"].conversation_history = mw["A"].conversation_history]_vars

\* the generator raised on "can't afford medication" after one completed
\* turn: the manager is at CRISIS with two recorded turns, the history
\* has the first message only
C28_Witness ==
    /\ mw_ret # <<>>
    /\ mw_ret.call = "generator_raises"
    /\ mw_ret.user_input = <<"f", "h">>
    /\ mw["A"].protection_manager =
           [current_level |-> CRISIS, trigger_history |-> <<0, 3>>,
            exchanges_since_clear |-> 0]
    /\ HistoryOf("A") = << <<>> >>

----------------------------------------------------------------------------
(* C27: the clean-turn counters *)

\* the number of zero entries at the end of a trigger history
RECURSIVE TrailingZeros(_)
TrailingZeros(history) ==
    IF history = <<>> \/ history[Len(history)] # 0 THEN 0
    ELSE 1 + TrailingZeros(SubSeq(history, 1, Len(history) - 1))

\* C27: in every reachable state of LFASEngine and ProtectionLevelManager
\* a clean-turn counter of 3 or more implies the level STANDARD, and the
\* counter is the number of consecutive zero-trigger turns at the end of
\* the turns since construction or reset
C27_CleanCounterImpliesStandard ==
    /\ engine.exchanges_without_triggers >= 3 =>
           engine.current_protection_level = STANDARD
    /\ engine.exchanges_without_triggers =
           CleanRun(engine.conversation_history,
                    Len(engine.conversation_history))
    /\ mgr.exchanges_since_clear >= 3 => mgr.current_level = STANDARD
    /\ mgr.exchanges_since_clear = TrailingZeros(mgr.trigger_history)

\* an engine that went to CRISIS, then to ENHANCED turns, has had three
\* clean turns: the counter is 3 and the level is STANDARD
C27_Witness ==
    LET h == engine.conversation_history
    IN  /\ op = "LFASEngine"
        /\ Len(h) = 5
        /\ h[1].triggers = 3 /\ h[1].level = CRISIS
        /\ h[2].triggers = 1 /\ h[2].level = CRISIS
        /\ h[3].triggers = 0 /\ h[4].triggers = 0 /\ h[5].triggers = 0
        /\ h[4].level = CRISIS
        /\ engine.exchanges_without_triggers = 3
        /\ engine.current_protection_level = STANDARD

----------------------------------------------------------------------------
(* C26: the derived fields of DetectionResult *)

\* trigger_count and protection_level are those of the indicators list
DerivedFieldsConsistent(object) ==
    /\ object.trigger_count = Len(object.indicators)
    /\ object.trigger_count <= 1 => object.protection_level = STANDARD
    /\ object.trigger_count = 2 => object.protection_level = ENHANCED
    /\ object.trigger_count >= 3 => object.protection_level = CRISIS

\* C26: after construction with any arguments and after any sequence of
\* add_indicator calls, trigger_count is len(indicators) and
\* protection_level is STANDARD, ENHANCED or CRISIS for a count of at most
\* 1, of 2, of 3 or more (the constructor's values are overwritten), and
\* protection_level never decreases across add_indicator calls
C26_DerivedFieldsAreConsistent ==
    [][detection' # detection =>
          /\ DerivedFieldsConsistent(detection'.object)
          /\ detection.constructed =>
                 detection'.object.protection_level
                     >= detection.object.protection_level]_vars

\* a result constructed with trigger_count=5, protection_level=CRISIS and
\* one indicator, after one add_indicator call: two triggers, ENHANCED
C26_Witness ==
    /\ detection.constructed
    /\ detection.given = [protection_level |-> CRISIS, trigger_count |-> 5]
    /\ Len(detection.object.indicators) = 2
    /\ detection.object.trigger_count = 2
    /\ detection.object.protection_level = ENHANCED

----------------------------------------------------------------------------
(* C30: the resources lists of CrisisDetectionSafeguard *)

\* the results that carry the crisis resources
CrisisResults ==
    {k \in 1..Len(safeguard.results) :
        \/ safeguard.results[k].call = "get_crisis_resources"
        \/ safeguard.results[k].protection_level = CRISIS}

\* C30: mutating the resources list of a returned SafeguardResponse, or
\* the list returned by get_crisis_resources, does not change the
\* resources of any later generate_response or get_crisis_resources
\* result, on the same or on another instance: every such result has the
\* three resources of the class
C30_ResultsShareNoMutableState ==
    \A k \in CrisisResults :
        safeguard.results[k].resources.at_return = CRISIS_RESOURCES

\* the same, as long as the caller has mutated only lists that
\* get_crisis_resources returned
C30_CopiesShareNoMutableState ==
    safeguard.class_list = CRISIS_RESOURCES =>
        \A k \in CrisisResults :
            safeguard.results[k].resources.at_return = CRISIS_RESOURCES

====
